---- MODULE Spec2Model ----
(***************************************************************************)
(* Frame driver and swapchain manager of VkProjectRust.                    *)
(*                                                                         *)
(* The host thread (wWinMain's message loop, VkApp::draw_frame and         *)
(* VkApp::recreate_swapchain) is modelled statement by statement through   *)
(* the program counter pc.  The GPU side (graphics queue, presentation     *)
(* engine) runs asynchronously: GpuExecute and PresentExecute interleave   *)
(* freely with the host steps.                                             *)
(***************************************************************************)
EXTENDS Integers, Sequences, FiniteSets, TLC

\* ---------------------------------------------------------------- constants
MAX_FRAMES_IN_FLIGHT == 2

\* ------------------------------------------------------------------- bounds
MaxRecreations == 2     \* swapchain recreations explored in one run
MaxMinImageCount == 2   \* largest min_image_count a surface reports
MaxImages == 2          \* largest image count a driver chooses on its own

VARIABLES
    pc,                          \* position of the host thread
    current_frame,               \* VkApp.current_frame
    in_flight_fences,            \* slot -> signaled?
    image_available_semaphores,  \* slot -> signaled?
    render_finished_semaphores,  \* slot -> signaled?
    graphics_queue,              \* submissions not yet completed by the GPU
    present_queue,               \* present requests not yet executed, in queue order
    surface_details,             \* VkApp.surface.details (capabilities)
    swapchain,                   \* VkApp.swapchain
    images,                      \* image index -> state of that swapchain image
    command_buffers,             \* slot -> the commands recorded in its command buffer
    device_objects,              \* live framebuffers / image views / chains
    swapchains_created,          \* handle counter of the device
    image_index,                 \* draw_frame local
    suboptimal_surface,          \* draw_frame local
    acquire_result,              \* what acquire_next_image reported
    present_result,              \* what queue_present reported
    recreate_caller,             \* which call site entered recreate_swapchain
    recreate_result,             \* outcome of the recreate_swapchain call
    start_frame,                 \* current_frame when the call began
    callLog,                     \* API calls made by the running draw_frame
    result,                      \* value draw_frame returned
    exit_code,                   \* value wWinMain returned
    presented_unrendered,        \* history: an image was shown before its render
    error_handled,               \* the error passed to ProjectError::handle
    WINDOW_WIDTH,                \* project::WINDOW_WIDTH
    WINDOW_HEIGHT,               \* project::WINDOW_HEIGHT
    builds,                      \* history: recreations completed since the last draw
    double_destroyed,            \* history: handles destroyed while not alive
    probe,                       \* initialisation function under study: input, output
    pipeline,                    \* VkApp.pipeline: the format its render pass was built for
    texture_file,                \* the decoded texture file
    one_shot,                    \* the single-time command buffer in use
    live_handles,                \* handles created and not yet destroyed
    device_log,                  \* history: device calls of VkApp::new and Drop
    device_memory,               \* buffer or image -> contents and layout
    hazards                      \* history: invalid uses of a handle

vars == <<pc, current_frame, in_flight_fences, image_available_semaphores,
          render_finished_semaphores, graphics_queue, present_queue,
          surface_details, swapchain, images, command_buffers, device_objects,
          swapchains_created, image_index, suboptimal_surface, acquire_result,
          present_result, recreate_caller, recreate_result, start_frame,
          callLog, result, exit_code, presented_unrendered, error_handled,
          WINDOW_WIDTH, WINDOW_HEIGHT, builds, double_destroyed, probe,
          pipeline, texture_file, one_shot, live_handles, device_log,
          device_memory, hazards>>

Slots == 0 .. (MAX_FRAMES_IN_FLIGHT - 1)

None == "none"

\* A command buffer in the initial state: allocated or reset, nothing recorded.
Unrecorded == [framebuffer |-> None]

\* No initialisation function is under study.
NoProbe == [fn |-> None]

\* ------------------------------------------------------------ surface model
\* u32::MAX, the extent a surface reports when the application chooses it.
\* TLC integers end at 2^31 - 1, so that value stands for it: it is the
\* largest value of the type and no extent limit or window size equals it.
U32_MAX == 2147483647

SRGB_FORMAT ==
    [format |-> "B8G8R8A8_SRGB", color_space |-> "SRGB_NONLINEAR"]

UNORM_FORMAT ==
    [format |-> "B8G8R8A8_UNORM", color_space |-> "SRGB_NONLINEAR"]

Extent2D(w, h) == [width |-> w, height |-> h]

UndefinedExtent == Extent2D(U32_MAX, U32_MAX)

\* Client sizes the window takes: the size it is created with (main.rs 16-17)
\* and one size a resize gives it.
WindowSizes == { <<640, 480>>, <<800, 600>> }

\* presentation.rs 13-18 SurfaceDetails, capabilities flattened.
SurfaceDetails(mn, mx, cur, lo, hi, formats, modes) ==
    [min_image_count  |-> mn,
     max_image_count  |-> mx,
     current_extent   |-> cur,
     min_image_extent |-> lo,
     max_image_extent |-> hi,
     formats          |-> formats,
     present_modes    |-> modes]

\* Details a surface can report to the running frame loop: image count
\* limits without a maximum (max_image_count = 0) and with max = min, for a
\* surface of fixed extent and format; and for one image count limit a
\* surface that leaves the extent to the application or offers another
\* format.
SurfaceDetailsSet ==
    { SurfaceDetails(mn, IF limited THEN mn ELSE 0, Extent2D(640, 480),
                     Extent2D(640, 480), Extent2D(640, 480), <<SRGB_FORMAT>>,
                     <<"FIFO">>) :
        mn \in 1 .. MaxMinImageCount,
        limited \in BOOLEAN }
    \cup
    { SurfaceDetails(1, 0, UndefinedExtent, Extent2D(1, 1),
                     Extent2D(720, 540), <<UNORM_FORMAT, SRGB_FORMAT>>,
                     <<"FIFO", "MAILBOX">>),
      SurfaceDetails(1, 0, Extent2D(800, 600), Extent2D(800, 600),
                     Extent2D(800, 600), <<UNORM_FORMAT>>, <<"FIFO">>) }

\* `as u32` applied to an i32: a negative value wraps to one above every
\* extent limit (WINDOW_WIDTH and WINDOW_HEIGHT hold 0 .. 65535 or 640, 480).
AsU32(x) == IF x < 0 THEN U32_MAX ELSE x

\* Ord::clamp for lo <= hi.
clamp(v, lo, hi) == IF v < lo THEN lo ELSE IF v > hi THEN hi ELSE v

\* Iterator::find: index of the first element of seq in set, 0 for None.
find(seq, set) ==
    LET hits == { i \in 1 .. Len(seq) : seq[i] \in set }
    IN  IF hits = {} THEN 0 ELSE CHOOSE i \in hits : \A j \in hits : i <= j

\* Mutant of swapchain_extent: the window size is taken without clamping.
swapchain_extent_NoClamp(details, width, height) ==
    IF details.current_extent.height = U32_MAX \/ details.current_extent.width = U32_MAX
    THEN Extent2D(AsU32(width), AsU32(height))
    ELSE details.current_extent

\* presentation.rs 78-89: the extent of the swapchain images.
swapchain_extent(details, width, height) ==
    IF details.current_extent.height = U32_MAX \/ details.current_extent.width = U32_MAX
    THEN Extent2D(clamp(AsU32(width), details.min_image_extent.width,
                        details.max_image_extent.width),
                  clamp(AsU32(height), details.min_image_extent.height,
                        details.max_image_extent.height))
    ELSE details.current_extent

\* Mutant of swapchain_format: the first format is taken.
swapchain_format_First(details) == details.formats[1]

\* presentation.rs 91-103: the surface format of the swapchain images.
swapchain_format(details) ==
    LET preferred == find(details.formats, {SRGB_FORMAT})
    IN  IF preferred # 0 THEN details.formats[preferred] ELSE details.formats[1]

\* Mutant of present_mode: FIFO is preferred to MAILBOX.
present_mode_FifoFirst(details) ==
    IF find(details.present_modes, {"FIFO"}) # 0 THEN "FIFO"
    ELSE IF find(details.present_modes, {"MAILBOX"}) # 0 THEN "MAILBOX"
    ELSE None

\* presentation.rs 111-136: the present mode, "none" when neither MAILBOX nor
\* FIFO is offered.
present_mode(details) ==
    IF find(details.present_modes, {"MAILBOX"}) # 0 THEN "MAILBOX"
    ELSE IF find(details.present_modes, {"FIFO"}) # 0 THEN "FIFO"
    ELSE None

\* presentation.rs 72-143 get_swapchain_settings.
get_swapchain_settings(details, width, height) ==
    IF present_mode(details) = None
    THEN [ok |-> FALSE,
          error |-> [kind |-> "DeviceError",
                     message |-> "Failed to find acceptable supported present mode"]]
    ELSE [ok |-> TRUE,
          extent |-> swapchain_extent(details, width, height),
          format |-> swapchain_format(details),
          present_mode |-> present_mode(details)]

\* Mutant of RequestedImageCount: a maximum of 0 is taken as a limit too.
RequestedImageCount_ZeroLimits(details) ==
    LET image_count == details.min_image_count + 1
    IN  IF image_count > details.max_image_count
        THEN details.max_image_count
        ELSE image_count

\* presentation.rs create_swapchain: number of images requested.
RequestedImageCount(details) ==
    LET image_count == details.min_image_count + 1
    IN  IF details.max_image_count > 0 /\ image_count > details.max_image_count
        THEN details.max_image_count
        ELSE image_count

\* A surface the driver accepts reports max = 0 or max >= min.
ValidDetails(details) ==
    details.max_image_count = 0 \/ details.max_image_count >= details.min_image_count

\* vkGetSwapchainImagesKHR: the driver creates at least the requested number.
DriverImageCounts(details) ==
    LET requested == RequestedImageCount(details)
    IN  requested .. (IF requested > MaxImages THEN requested ELSE MaxImages)

\* create_swapchain_image_views: one view per image the swapchain holds.
create_swapchain_image_views(handle, n) ==
    [i \in 1 .. n |-> <<handle, i>>]

\* create_swapchain: the Swapchain value returned on success.
create_swapchain(handle, n, settings) ==
    [vk_swapchain |-> handle,
     settings     |-> settings,
     image_count  |-> n,
     image_views  |-> create_swapchain_image_views(handle, n),
     framebuffers |-> << >>]

\* Mutant of create_framebuffers: the loop stops one image view short.
create_framebuffers_OneShort(sc, made) ==
    [sc EXCEPT !.framebuffers =
        sc.framebuffers \o [i \in 1 .. (made - 1) |-> <<sc.vk_swapchain, "fb", i>>]]

\* Swapchain::create_framebuffers: push one framebuffer per image view,
\* stopping after `made` of them (made = Len(image_views) on success).
create_framebuffers(sc, made) ==
    [sc EXCEPT !.framebuffers =
        sc.framebuffers \o [i \in 1 .. made |-> <<sc.vk_swapchain, "fb", i>>]]

SeqRange(s) == { s[i] : i \in 1 .. Len(s) }

\* Mutant of FreshImages: the swapchain hands out one index more than it
\* has images.
FreshImages_OneMore(n) == [i \in 0 .. n |-> [state |-> "free", rendered |-> FALSE]]

\* The images of a new swapchain, by the index acquire_next_image returns.
FreshImages(n) == [i \in 0 .. (n - 1) |-> [state |-> "free", rendered |-> FALSE]]

ObjectsOf(sc) ==
    [framebuffers |-> SeqRange(sc.framebuffers),
     image_views  |-> SeqRange(sc.image_views),
     swapchains   |-> {sc.vk_swapchain}]

\* ------------------------------------------------------------- resources
\* The device memory bound to a buffer or an image (Buffer.buffer_memory,
\* texture_image_memory).
Memory(handle) == handle \o "_memory"

\* Entries of device_log for a list of handles.
Created(handles) == [k \in 1 .. Len(handles) |-> <<"create", handles[k]>>]

Destroyed(handles) == [k \in 1 .. Len(handles) |-> <<"destroy", handles[k]>>]

\* buffers.rs 259-278 create_buffer: the buffer, then its memory.
create_buffer(buffer) == <<buffer, Memory(buffer)>>

\* Mutant of Buffer_cleanup: the memory is freed before the buffer.
Buffer_cleanup_MemoryFirst(buffer) == <<Memory(buffer), buffer>>

\* buffers.rs 27-33 Buffer::cleanup: destroy_buffer, then free_memory.
Buffer_cleanup(buffer) == <<buffer, Memory(buffer)>>

\* textures.rs 150-169 create_image: the image, then its memory.
create_image(image) == <<image, Memory(image)>>

\* pipeline.rs 30-44 create_pipeline: the handles a Pipeline holds, and the
\* format of the render pass attachment (pipeline.rs 59).
PipelineHandles ==
    <<"render_pass", "descriptor_set_layout", "pipeline_layout", "graphics_pipeline">>

create_pipeline(swapchain_settings) ==
    [render_pass_format |-> swapchain_settings.format.format]

NoPipeline == [render_pass_format |-> None]

\* pipeline.rs 18-26 Pipeline::cleanup.
Pipeline_cleanup ==
    <<"descriptor_set_layout", "pipeline_layout", "render_pass", "graphics_pipeline">>

\* commands.rs 157-163 create_sync_objects and 123-136 SyncObjects::cleanup.
SyncHandles ==
    <<"image_available_semaphores", "render_finished_semaphores", "in_flight_fences">>

\* The uniform buffer of a frame slot (vk_app.rs 60).
uniform_buffers(slot) == "uniform_buffer_" \o ToString(slot)

\* textures.rs 16-28: what the decoder reports about the texture file.
TextureFile(found, color_type) == [found |-> found, color_type |-> color_type]

RgbaFile == TextureFile(TRUE, "Rgba")

TextureFiles ==
    { RgbaFile, TextureFile(TRUE, "Grayscale"), TextureFile(TRUE, "Rgb"),
      TextureFile(FALSE, None) }

\* No single-time command buffer is in use.
NoOneShot == [commands |-> [op |-> None], return |-> None]

\* A buffer or image gets memory; its contents are not yet defined.
Allocate(memory, handle, layout) ==
    [h \in DOMAIN memory \cup {handle} |->
        IF h = handle THEN [contents |-> "undefined", layout |-> layout]
        ELSE memory[h]]

\* The memory of a buffer or image is gone.
Release(memory, handles) ==
    [h \in DOMAIN memory \ handles |-> memory[h]]

\* The commands a single-time command buffer is recorded with: a layout
\* transition (textures.rs 232-243), cmd_copy_buffer (buffers.rs 293-294),
\* cmd_copy_buffer_to_image (textures.rs 259-276).
PipelineBarrier(image, old_layout, new_layout) ==
    [op |-> "pipeline_barrier", image |-> image, old_layout |-> old_layout,
     new_layout |-> new_layout]

CopyBuffer(src_buffer, dst_buffer) ==
    [op |-> "copy_buffer", src |-> src_buffer, dst |-> dst_buffer]

CopyBufferToImage(buffer, image) ==
    [op |-> "copy_buffer_to_image", src |-> buffer, dst |-> image]

\* The staging buffer of an upload.
Staging(destination) == "staging_" \o destination

\* The two uniform buffers with their memories (buffers.rs 141-158).
UniformBufferHandles ==
    create_buffer(uniform_buffers(0)) \o create_buffer(uniform_buffers(1))

\* How device_log names a recorded command: what it does and to what.
CommandName(commands) ==
    commands.op \o ":" \o
    (IF commands.op = "pipeline_barrier" THEN commands.new_layout ELSE commands.dst)

\* What the device sees of one begin_single_time_commands ..
\* end_single_time_commands that succeeds (buffers.rs 305-346).
OneShotLog(commands) ==
    << <<"allocate", "single_time_command_buffer">>,
       <<"begin ONE_TIME_SUBMIT", "single_time_command_buffer">>,
       <<"record", CommandName(commands)>>,
       <<"end", "single_time_command_buffer">>,
       <<"submit", CommandName(commands)>>,
       <<"executed", CommandName(commands)>>,
       <<"wait_idle", "graphics_queue">>,
       <<"free", "single_time_command_buffer">> >>

\* What the device sees of a successful create_vertex_buffer or
\* create_index_buffer (buffers.rs 51-126).
UploadLog(buffer) ==
    Created(create_buffer(Staging(buffer)))
    \o << <<"write", Staging(buffer)>> >>
    \o Created(create_buffer(buffer))
    \o OneShotLog(CopyBuffer(Staging(buffer), buffer))
    \o Destroyed(Buffer_cleanup(Staging(buffer)))

\* What the device sees of a successful create_texture_image (textures.rs
\* 30-80).
TextureLog ==
    Created(create_buffer(Staging("texture_image")))
    \o << <<"write", Staging("texture_image")>> >>
    \o Created(create_image("texture_image"))
    \o OneShotLog(PipelineBarrier("texture_image", "UNDEFINED", "TRANSFER_DST_OPTIMAL"))
    \o OneShotLog(CopyBufferToImage(Staging("texture_image"), "texture_image"))
    \o OneShotLog(PipelineBarrier("texture_image", "TRANSFER_DST_OPTIMAL",
                                  "SHADER_READ_ONLY_OPTIMAL"))
    \o Destroyed(Buffer_cleanup(Staging("texture_image")))

\* vk_app.rs 115-191: what the device has seen when VkApp::new returns Ok.
ConstructedLog ==
    Created(<<"instance", "debug_callback", "surface", "device", "swapchain">>)
    \o Created(PipelineHandles)
    \o Created(<<"command_pool">>)
    \o TextureLog
    \o Created(<<"texture_image_view", "texture_sampler">>)
    \o UploadLog("vertex_buffer")
    \o UploadLog("index_buffer")
    \o Created(UniformBufferHandles)
    \o Created(<<"descriptor_pool", "descriptor_sets", "command_buffers">>)
    \o Created(SyncHandles)

\* vk_app.rs 193-219: the handles the VkApp owns.
ConstructedHandles ==
    { "instance", "debug_callback", "surface", "device", "swapchain",
      "command_pool", "texture_image_view", "texture_sampler",
      "descriptor_pool", "descriptor_sets", "command_buffers" }
    \cup SeqRange(PipelineHandles) \cup SeqRange(create_image("texture_image"))
    \cup SeqRange(create_buffer("vertex_buffer"))
    \cup SeqRange(create_buffer("index_buffer"))
    \cup SeqRange(UniformBufferHandles) \cup SeqRange(SyncHandles)

\* What the memories of the VkApp hold when VkApp::new returns Ok.
ConstructedMemory ==
    [h \in { "texture_image", "vertex_buffer", "index_buffer",
             uniform_buffers(0), uniform_buffers(1) } |->
        IF h = "texture_image"
        THEN [contents |-> "pixels", layout |-> "SHADER_READ_ONLY_OPTIMAL"]
        ELSE IF h = "vertex_buffer" THEN [contents |-> "VERTICES", layout |-> None]
        ELSE IF h = "index_buffer" THEN [contents |-> "INDICES", layout |-> None]
        ELSE [contents |-> "undefined", layout |-> None]]

\* ---------------------------------------------------------------------- Init
\* State after VkApp::new succeeded (vk_app.rs 111-220) and wWinMain is about
\* to enter its message loop.
Init ==
    /\ pc = "loop"
    /\ current_frame = 0
    /\ in_flight_fences = [s \in Slots |-> TRUE]
    /\ image_available_semaphores = [s \in Slots |-> FALSE]
    /\ render_finished_semaphores = [s \in Slots |-> FALSE]
    /\ graphics_queue = {}
    /\ present_queue = << >>
    /\ \E size \in WindowSizes :
          /\ WINDOW_WIDTH = size[1]
          /\ WINDOW_HEIGHT = size[2]
    /\ surface_details \in { d \in SurfaceDetailsSet : ValidDetails(d) }
    /\ \E n \in DriverImageCounts(surface_details) :
          /\ swapchain = create_framebuffers(
                create_swapchain(1, n,
                    get_swapchain_settings(surface_details, WINDOW_WIDTH,
                                           WINDOW_HEIGHT)), n)
          /\ images = FreshImages(n)
    /\ command_buffers = [s \in Slots |-> Unrecorded]
    /\ device_objects = ObjectsOf(swapchain)
    /\ swapchains_created = 1
    /\ image_index = None
    /\ suboptimal_surface = FALSE
    /\ acquire_result = None
    /\ present_result = None
    /\ recreate_caller = None
    /\ recreate_result = None
    /\ start_frame = 0
    /\ callLog = << >>
    /\ result = None
    /\ exit_code = None
    /\ presented_unrendered = FALSE
    /\ error_handled = None
    /\ builds = << >>
    /\ double_destroyed = {}
    /\ probe = NoProbe
    /\ pipeline = create_pipeline(swapchain.settings)
    /\ texture_file = RgbaFile
    /\ one_shot = NoOneShot
    /\ live_handles = ConstructedHandles
    /\ device_log = ConstructedLog
    /\ device_memory = ConstructedMemory
    /\ hazards = {}

\* -------------------------------------------------------- variable groups
syncVars  == <<in_flight_fences, image_available_semaphores,
               render_finished_semaphores>>
queueVars == <<graphics_queue, present_queue, presented_unrendered>>
chainVars == <<surface_details, swapchain, device_objects, swapchains_created>>
callVars  == <<image_index, suboptimal_surface, acquire_result, present_result,
               recreate_caller, recreate_result, start_frame>>
windowVars == <<WINDOW_WIDTH, WINDOW_HEIGHT>>
histVars  == <<builds, double_destroyed>>
lifeVars  == <<pipeline, texture_file, one_shot, live_handles, device_log,
               device_memory, hazards>>

Log(e) == callLog' = Append(callLog, e)

\* `?` on an Err inside draw_frame: the call returns the error at once.
ReturnErr ==
    /\ pc' = "returned"
    /\ result' = "err"

\* ------------------------------------------------------- wWinMain's loop
\* main.rs 28: the low-order 16 bits of an LPARAM.
loword(l_param) == l_param % (2 ^ 16)

\* main.rs 31: bits 16..31 of an LPARAM.
hiword(l_param) == (l_param \div (2 ^ 16)) % (2 ^ 16)

\* Messages the window receives; WM_SIZE carries the new client size in the
\* low and high word of its LPARAM.
Messages ==
    { [u_msg |-> "WM_SIZE", l_param |-> size[2] * (2 ^ 16) + size[1]] :
        size \in WindowSizes }
    \cup { [u_msg |-> "WM_DESTROY", l_param |-> 0],
           [u_msg |-> "WM_PAINT", l_param |-> 0] }

\* main.rs 53-66 window_proc, called on the host thread while the loop
\* translates, dispatches and fetches messages (main.rs 121-123): WM_SIZE
\* stores the new client size, WM_DESTROY posts the quit message, every
\* other message is left to DefWindowProcW.
window_proc ==
    /\ pc = "loop"
    /\ \E msg \in Messages :
          IF msg.u_msg = "WM_SIZE"
          THEN /\ WINDOW_WIDTH' = loword(msg.l_param)
               /\ WINDOW_HEIGHT' = hiword(msg.l_param)
          ELSE UNCHANGED windowVars
    /\ UNCHANGED <<pc, current_frame, syncVars, queueVars, chainVars, images,
                   command_buffers, callVars, callLog, result, exit_code,
                   error_handled, histVars, probe, lifeVars>>

\* main.rs 123-124: GetMessageW > 0, so draw_frame is called.
GetMessageDraw ==
    /\ pc = "loop"
    /\ pc' = "wait_for_fences"
    /\ start_frame' = current_frame
    /\ UNCHANGED <<current_frame, syncVars, queueVars, chainVars, images,
                   command_buffers, image_index, suboptimal_surface,
                   acquire_result, present_result, recreate_caller,
                   recreate_result, callLog, result, exit_code, error_handled,
                   windowVars, histVars, probe, lifeVars>>

\* main.rs 128-135: GetMessageW <= 0 leaves the loop, wWinMain returns 0.
GetMessageQuit ==
    /\ pc = "loop"
    /\ pc' = "exited"
    /\ exit_code' = 0
    /\ UNCHANGED <<current_frame, syncVars, queueVars, chainVars, images,
                   command_buffers, callVars, callLog, result, error_handled,
                   windowVars, histVars, probe, lifeVars>>

\* main.rs 124: draw_frame returned Ok, the loop goes round.
DrawFrameOk ==
    /\ pc = "returned"
    /\ result = "ok"
    /\ pc' = "loop"
    /\ callLog' = << >>
    /\ result' = None
    /\ image_index' = None
    /\ suboptimal_surface' = FALSE
    /\ acquire_result' = None
    /\ present_result' = None
    /\ recreate_caller' = None
    /\ recreate_result' = None
    /\ start_frame' = current_frame
    /\ UNCHANGED <<current_frame, syncVars, queueVars, chainVars, images,
                   command_buffers, exit_code, error_handled,
                   windowVars, histVars, probe, lifeVars>>

\* Mutant of DrawFrameErr: the error is shown and the loop goes round again.
DrawFrameErr_Retry ==
    /\ pc = "returned"
    /\ result = "err"
    /\ pc' = "loop"
    /\ error_handled' = result
    /\ UNCHANGED <<current_frame, syncVars, queueVars, chainVars, images,
                   command_buffers, callVars, callLog, result, exit_code,
                   windowVars, histVars, probe, lifeVars>>

\* main.rs 124-127: draw_frame returned Err: err.handle(); return -1.
DrawFrameErr ==
    /\ pc = "returned"
    /\ result = "err"
    /\ pc' = "exited"
    /\ exit_code' = -1
    /\ error_handled' = result
    /\ UNCHANGED <<current_frame, syncVars, queueVars, chainVars, images,
                   command_buffers, callVars, callLog, result, windowVars,
                   histVars, probe, lifeVars>>

\* ------------------------------------------------------------ draw_frame
\* Mutant of WaitForFences: the fence is reset as soon as the wait is over,
\* before the acquire has succeeded.
WaitForFences_ResetBeforeAcquire ==
    /\ pc = "wait_for_fences"
    /\ Log("wait_for_fences")
    /\ \/ /\ in_flight_fences[current_frame]
          /\ in_flight_fences' = [in_flight_fences EXCEPT ![current_frame] = FALSE]
          /\ pc' = "acquire_next_image"
          /\ UNCHANGED result
       \/ /\ ReturnErr
          /\ UNCHANGED in_flight_fences
    /\ UNCHANGED <<current_frame, image_available_semaphores,
                   render_finished_semaphores, queueVars, chainVars, images,
                   command_buffers, callVars, exit_code, error_handled,
                   windowVars, histVars, probe, lifeVars>>

\* Mutant of WaitForFences: the call does not block on the fence.
WaitForFences_NoBlock ==
    /\ pc = "wait_for_fences"
    /\ Log("wait_for_fences")
    /\ \/ /\ pc' = "acquire_next_image"
          /\ UNCHANGED result
       \/ ReturnErr
    /\ UNCHANGED <<current_frame, syncVars, queueVars, chainVars, images,
                   command_buffers, callVars, exit_code, error_handled,
                   windowVars, histVars, probe, lifeVars>>

\* vk_app.rs 226-227: wait_for_fences on the slot's fence, no timeout.
WaitForFences ==
    /\ pc = "wait_for_fences"
    /\ Log("wait_for_fences")
    /\ \/ /\ in_flight_fences[current_frame]
          /\ pc' = "acquire_next_image"
          /\ UNCHANGED result
       \/ ReturnErr
    /\ UNCHANGED <<current_frame, syncVars, queueVars, chainVars, images,
                   command_buffers, callVars, exit_code, error_handled,
                   windowVars, histVars, probe, lifeVars>>

FreeImages == { i \in DOMAIN images : images[i].state = "free" }

\* vk_app.rs 236: Ok((image_index, suboptimal_surface)); the acquire signals
\* the slot's image-available semaphore.
AcquireOk ==
    \E i \in FreeImages, suboptimal \in BOOLEAN :
        /\ suboptimal => swapchains_created <= MaxRecreations
        /\ Log("acquire_next_image")
        /\ images' = [images EXCEPT ![i] = [state |-> "acquired", rendered |-> FALSE]]
        /\ image_available_semaphores' =
              [image_available_semaphores EXCEPT ![current_frame] = TRUE]
        /\ image_index' = i
        /\ suboptimal_surface' = suboptimal
        /\ acquire_result' = IF suboptimal THEN "SUBOPTIMAL" ELSE "SUCCESS"
        /\ pc' = "update_uniform_buffer"
        /\ builds' = << >>
        /\ UNCHANGED <<recreate_caller, result>>

\* Mutant of AcquireOutOfDate: after the recreation the call falls through
\* to the end of draw_frame instead of returning early.
AcquireOutOfDate_FallThrough ==
    /\ swapchains_created <= MaxRecreations
    /\ callLog' = callLog \o <<"acquire_next_image", "recreate_swapchain">>
    /\ acquire_result' = "OUT_OF_DATE"
    /\ recreate_caller' = "present"
    /\ pc' = "rc_device_wait_idle"
    /\ UNCHANGED <<images, image_available_semaphores, image_index,
                   suboptimal_surface, result, builds>>

\* vk_app.rs 237-241: Err(ERROR_OUT_OF_DATE_KHR) => recreate_swapchain()?;
\* return Ok(()).
AcquireOutOfDate ==
    /\ swapchains_created <= MaxRecreations
    /\ callLog' = callLog \o <<"acquire_next_image", "recreate_swapchain">>
    /\ acquire_result' = "OUT_OF_DATE"
    /\ recreate_caller' = "acquire"
    /\ pc' = "rc_device_wait_idle"
    /\ UNCHANGED <<images, image_available_semaphores, image_index,
                   suboptimal_surface, result, builds>>

\* vk_app.rs 242: Err(err) => return Err(err.into()).
AcquireErr ==
    /\ Log("acquire_next_image")
    /\ acquire_result' = "ERROR"
    /\ ReturnErr
    /\ UNCHANGED <<images, image_available_semaphores, image_index,
                   suboptimal_surface, recreate_caller, builds>>

\* vk_app.rs 230-243: acquire_next_image and the match on its result.
AcquireNextImage ==
    /\ pc = "acquire_next_image"
    /\ \/ AcquireOk
       \/ AcquireOutOfDate
       \/ AcquireErr
    /\ UNCHANGED <<current_frame, in_flight_fences, render_finished_semaphores,
                   queueVars, chainVars, command_buffers, present_result,
                   recreate_result, start_frame, exit_code, error_handled,
                   windowVars, double_destroyed, probe, lifeVars>>

\* Mutant of UpdateUniformBuffer: the fence reset that follows is left out.
UpdateUniformBuffer_NoFenceReset ==
    /\ pc = "update_uniform_buffer"
    /\ Log("update_uniform_buffer")
    /\ pc' = "reset_command_buffer"
    /\ UNCHANGED <<current_frame, syncVars, queueVars, chainVars, images,
                   command_buffers, callVars, result, exit_code, error_handled,
                   windowVars, histVars, probe, lifeVars>>

\* vk_app.rs 245 / buffers.rs 366-377: write the slot's mapped uniform buffer.
UpdateUniformBuffer ==
    /\ pc = "update_uniform_buffer"
    /\ Log("update_uniform_buffer")
    /\ pc' = "reset_fences"
    /\ UNCHANGED <<current_frame, syncVars, queueVars, chainVars, images,
                   command_buffers, callVars, result, exit_code, error_handled,
                   windowVars, histVars, probe, lifeVars>>

\* vk_app.rs 248-249: reset_fences on the slot's fence.
ResetFences ==
    /\ pc = "reset_fences"
    /\ Log("reset_fences")
    /\ \/ /\ in_flight_fences' = [in_flight_fences EXCEPT ![current_frame] = FALSE]
          /\ pc' = "reset_command_buffer"
          /\ UNCHANGED result
       \/ /\ ReturnErr
          /\ UNCHANGED in_flight_fences
    /\ UNCHANGED <<current_frame, image_available_semaphores,
                   render_finished_semaphores, queueVars, chainVars, images,
                   command_buffers, callVars, exit_code, error_handled,
                   windowVars, histVars, probe, lifeVars>>

\* vk_app.rs 251-252: reset_command_buffer on the slot's command buffer.
ResetCommandBuffer ==
    /\ pc = "reset_command_buffer"
    /\ Log("reset_command_buffer")
    /\ \/ /\ command_buffers' = [command_buffers EXCEPT ![current_frame] = Unrecorded]
          /\ pc' = "record_command_buffer"
          /\ UNCHANGED result
       \/ /\ ReturnErr
          /\ UNCHANGED command_buffers
    /\ UNCHANGED <<current_frame, syncVars, queueVars, chainVars, images,
                   callVars, exit_code, error_handled,
                   windowVars, histVars, probe, lifeVars>>

\* `as f32` applied to a u32: exact up to 2^24, above it the nearest value
\* with a 24 bit significand, ties to the even significand.
AsF32(x) ==
    IF x <= 2 ^ 24
    THEN x
    ELSE LET steps == { 2 ^ k : k \in 1 .. 7 }
             p == CHOOSE q \in steps :
                     /\ x \div q < 2 ^ 24
                     /\ \A r \in steps : x \div r < 2 ^ 24 => q <= r
             lo == x \div p
             rest == x % p
         IN  IF 2 * rest < p \/ (2 * rest = p /\ lo % 2 = 0)
             THEN lo * p
             ELSE (lo + 1) * p

\* commands.rs 87-93: the viewport record_command_buffer sets.
Viewport(extent) ==
    [x |-> 0, y |-> 0,
     width |-> AsF32(extent.width),
     height |-> AsF32(extent.height),
     min_depth |-> 0,
     max_depth |-> 0]

\* commands.rs 97-99: the scissor rectangle record_command_buffer sets.
Scissor(extent) ==
    [offset |-> [x |-> 0, y |-> 0], extent |-> extent]

\* commands.rs 56-102: the commands recorded for an acquired image.
RecordedCommands ==
    [framebuffer |-> IF image_index + 1 <= Len(swapchain.framebuffers)
                     THEN swapchain.framebuffers[image_index + 1]
                     ELSE "out_of_bounds",
     viewport |-> Viewport(swapchain.settings.extent),
     scissor |-> Scissor(swapchain.settings.extent)]

\* commands.rs 41-107: record against swapchain.framebuffers[image_index].
RecordCommandBuffer ==
    /\ pc = "record_command_buffer"
    /\ Log("record_command_buffer")
    /\ \/ /\ command_buffers' =
                [command_buffers EXCEPT ![current_frame] = RecordedCommands]
          /\ pc' = "queue_submit"
          /\ UNCHANGED result
       \/ /\ ReturnErr
          /\ UNCHANGED command_buffers
    /\ UNCHANGED <<current_frame, syncVars, queueVars, chainVars, images,
                   callVars, exit_code, error_handled,
                   windowVars, histVars, probe, lifeVars>>

\* Mutant of Submission: the submission signals the other slot's fence.
Submission_OtherFence ==
    [command_buffer |-> current_frame,
     wait_semaphore |-> current_frame,
     signal_semaphore |-> current_frame,
     fence |-> (current_frame + 1) % MAX_FRAMES_IN_FLIGHT,
     image |-> image_index,
     framebuffer |-> command_buffers[current_frame].framebuffer]

\* vk_app.rs 265-284: the SubmitInfo built for the slot and its fence.
Submission ==
    [command_buffer |-> current_frame,
     wait_semaphore |-> current_frame,
     signal_semaphore |-> current_frame,
     fence |-> current_frame,
     image |-> image_index,
     framebuffer |-> command_buffers[current_frame].framebuffer]

\* vk_app.rs 280-284: queue_submit on the graphics queue.
QueueSubmit ==
    /\ pc = "queue_submit"
    /\ Log("queue_submit")
    /\ \/ /\ graphics_queue' = graphics_queue \cup {Submission}
          /\ pc' = "queue_present"
          /\ UNCHANGED result
       \/ /\ ReturnErr
          /\ UNCHANGED graphics_queue
    /\ UNCHANGED <<current_frame, syncVars, present_queue, presented_unrendered,
                   chainVars, images, command_buffers, callVars, exit_code, error_handled,
                   windowVars, histVars, probe, lifeVars>>

\* Mutant of PresentInfo: the present waits on the other slot's semaphore.
PresentInfo_OtherSlot ==
    [wait_semaphore |-> (current_frame + 1) % MAX_FRAMES_IN_FLIGHT,
     image |-> image_index,
     swapchain |-> swapchain.vk_swapchain]

\* vk_app.rs 287-292: the PresentInfoKHR built for the acquired image.
PresentInfo ==
    [wait_semaphore |-> current_frame,
     image |-> image_index,
     swapchain |-> swapchain.vk_swapchain]

\* vk_app.rs 294-296: queue_present(...)?; Ok(suboptimal) is discarded, every
\* Err, ERROR_OUT_OF_DATE_KHR included, is returned by the `?`.
QueuePresent ==
    /\ pc = "queue_present"
    /\ Log("queue_present")
    /\ \/ /\ present_result' \in {"SUCCESS", "SUBOPTIMAL"}
          /\ present_queue' = Append(present_queue, PresentInfo)
          /\ images' = [images EXCEPT ![image_index].state = "queued"]
          /\ pc' = "check_suboptimal"
          /\ UNCHANGED result
       \/ /\ present_result' \in {"OUT_OF_DATE", "ERROR"}
          /\ ReturnErr
          /\ UNCHANGED <<present_queue, images>>
    /\ UNCHANGED <<current_frame, syncVars, graphics_queue, presented_unrendered,
                   chainVars, command_buffers, image_index, suboptimal_surface,
                   acquire_result, recreate_caller, recreate_result,
                   start_frame, exit_code, error_handled,
                   windowVars, histVars, probe, lifeVars>>

\* Mutant of CheckSuboptimal: the suboptimal flag is ignored.
CheckSuboptimal_Ignored ==
    /\ pc = "check_suboptimal"
    /\ pc' = "advance"
    /\ UNCHANGED <<callLog, recreate_caller>>
    /\ UNCHANGED <<current_frame, syncVars, queueVars, chainVars, images,
                   command_buffers, image_index, suboptimal_surface,
                   acquire_result, present_result, recreate_result,
                   start_frame, result, exit_code, error_handled,
                   windowVars, histVars, probe, lifeVars>>

\* vk_app.rs 300-303: recreate after presenting when acquire was suboptimal.
CheckSuboptimal ==
    /\ pc = "check_suboptimal"
    /\ IF suboptimal_surface
       THEN /\ Log("recreate_swapchain")
            /\ recreate_caller' = "present"
            /\ pc' = "rc_device_wait_idle"
       ELSE /\ pc' = "advance"
            /\ UNCHANGED <<callLog, recreate_caller>>
    /\ UNCHANGED <<current_frame, syncVars, queueVars, chainVars, images,
                   command_buffers, image_index, suboptimal_surface,
                   acquire_result, present_result, recreate_result,
                   start_frame, result, exit_code, error_handled,
                   windowVars, histVars, probe, lifeVars>>

\* Mutant of Advance: the counter wraps one slot too late.
Advance_WrapLate ==
    /\ pc = "advance"
    /\ Log("advance")
    /\ current_frame' = (current_frame + 1) % (MAX_FRAMES_IN_FLIGHT + 1)
    /\ result' = "ok"
    /\ pc' = "returned"
    /\ UNCHANGED <<syncVars, queueVars, chainVars, images, command_buffers,
                   callVars, exit_code, error_handled,
                   windowVars, histVars, probe, lifeVars>>

\* vk_app.rs 306-309: advance the frame counter and return Ok.
Advance ==
    /\ pc = "advance"
    /\ Log("advance")
    /\ current_frame' = (current_frame + 1) % MAX_FRAMES_IN_FLIGHT
    /\ result' = "ok"
    /\ pc' = "returned"
    /\ UNCHANGED <<syncVars, queueVars, chainVars, images, command_buffers,
                   callVars, exit_code, error_handled,
                   windowVars, histVars, probe, lifeVars>>

\* ----------------------------------------------------- recreate_swapchain
\* `?` on an Err inside recreate_swapchain: both call sites in draw_frame
\* apply `?` to the call, so draw_frame returns the error too.
RecreateErr ==
    /\ recreate_result' = "err"
    /\ ReturnErr

\* The GPU has nothing left to do on any queue.
DeviceIdle == graphics_queue = {} /\ present_queue = << >>

\* Mutant of RcDeviceWaitIdle: the call returns while work is still queued.
RcDeviceWaitIdle_NoWait ==
    /\ pc = "rc_device_wait_idle"
    /\ Log("device_wait_idle")
    /\ \/ /\ pc' = "rc_cleanup"
          /\ UNCHANGED <<recreate_result, result>>
       \/ RecreateErr
    /\ UNCHANGED <<current_frame, syncVars, queueVars, chainVars, images,
                   command_buffers, image_index, suboptimal_surface,
                   acquire_result, present_result, recreate_caller,
                   start_frame, exit_code, error_handled,
                   windowVars, histVars, probe, lifeVars>>

\* vk_app.rs 325-326: device_wait_idle()?.
RcDeviceWaitIdle ==
    /\ pc = "rc_device_wait_idle"
    /\ Log("device_wait_idle")
    /\ \/ /\ DeviceIdle
          /\ pc' = "rc_cleanup"
          /\ UNCHANGED <<recreate_result, result>>
       \/ RecreateErr
    /\ UNCHANGED <<current_frame, syncVars, queueVars, chainVars, images,
                   command_buffers, image_index, suboptimal_surface,
                   acquire_result, present_result, recreate_caller,
                   start_frame, exit_code, error_handled,
                   windowVars, histVars, probe, lifeVars>>

\* Mutant of cleanup: the chain handle is destroyed first.
cleanup_ChainFirst ==
    <<"destroy_swapchain", "destroy_framebuffers", "destroy_image_views">>

\* presentation.rs 156-167 Swapchain::cleanup: the calls it makes, in order.
cleanup ==
    <<"destroy_framebuffers", "destroy_image_views", "destroy_swapchain">>

\* vkDestroy* on every handle of `objects`: the handles that stay alive.
Destroy(live, objects) == live \ objects

AllObjects(objects) ==
    objects.framebuffers \cup objects.image_views
        \cup { <<handle>> : handle \in objects.swapchains }

\* Mutant of RcCleanup: the image views are not destroyed.
RcCleanup_LeakViews ==
    /\ pc = "rc_cleanup"
    /\ callLog' = callLog \o cleanup
    /\ device_objects' =
          [framebuffers |-> Destroy(device_objects.framebuffers, SeqRange(swapchain.framebuffers)),
           image_views  |-> device_objects.image_views,
           swapchains   |-> Destroy(device_objects.swapchains, {swapchain.vk_swapchain})]
    /\ double_destroyed' =
          double_destroyed \cup (AllObjects(ObjectsOf(swapchain)) \ AllObjects(device_objects))
    /\ pc' = "rc_get_surface_details"
    /\ UNCHANGED <<current_frame, syncVars, queueVars, surface_details,
                   swapchain, swapchains_created, images, command_buffers,
                   callVars, result, exit_code, error_handled,
                   windowVars, builds, probe, lifeVars>>

\* vk_app.rs 328-329: self.swapchain.cleanup(&self.device); the Swapchain
\* value itself keeps the handles it destroyed.
RcCleanup ==
    /\ pc = "rc_cleanup"
    /\ callLog' = callLog \o cleanup
    /\ device_objects' =
          [framebuffers |-> Destroy(device_objects.framebuffers, SeqRange(swapchain.framebuffers)),
           image_views  |-> Destroy(device_objects.image_views, SeqRange(swapchain.image_views)),
           swapchains   |-> Destroy(device_objects.swapchains, {swapchain.vk_swapchain})]
    /\ double_destroyed' =
          double_destroyed \cup (AllObjects(ObjectsOf(swapchain)) \ AllObjects(device_objects))
    /\ pc' = "rc_get_surface_details"
    /\ UNCHANGED <<current_frame, syncVars, queueVars, surface_details,
                   swapchain, swapchains_created, images, command_buffers,
                   callVars, result, exit_code, error_handled,
                   windowVars, builds, probe, lifeVars>>

\* vk_app.rs 331-336: self.surface.details = get_surface_details(...)?.
RcGetSurfaceDetails ==
    /\ pc = "rc_get_surface_details"
    /\ Log("get_surface_details")
    /\ \/ /\ surface_details' \in { d \in SurfaceDetailsSet : ValidDetails(d) }
          /\ pc' = "rc_create_swapchain"
          /\ UNCHANGED <<recreate_result, result>>
       \/ /\ RecreateErr
          /\ UNCHANGED surface_details
    /\ UNCHANGED <<current_frame, syncVars, queueVars, swapchain,
                   device_objects, swapchains_created, images, command_buffers,
                   image_index, suboptimal_surface, acquire_result,
                   present_result, recreate_caller, start_frame, exit_code, error_handled,
                   windowVars, histVars, probe, lifeVars>>

\* vk_app.rs 338-339: self.swapchain = create_swapchain(...)?.
RcCreateSwapchain ==
    /\ pc = "rc_create_swapchain"
    /\ Log("create_swapchain")
    /\ \/ \E n \in DriverImageCounts(surface_details) :
            /\ get_swapchain_settings(surface_details, WINDOW_WIDTH,
                                      WINDOW_HEIGHT).ok
            /\ swapchain' = create_swapchain(swapchains_created + 1, n,
                  get_swapchain_settings(surface_details, WINDOW_WIDTH,
                                         WINDOW_HEIGHT))
            /\ swapchains_created' = swapchains_created + 1
            /\ device_objects' =
                  [device_objects EXCEPT
                      !.image_views = @ \cup SeqRange(swapchain'.image_views),
                      !.swapchains  = @ \cup {swapchain'.vk_swapchain}]
            /\ images' = FreshImages(n)
            /\ pc' = "rc_create_framebuffers"
            /\ UNCHANGED <<recreate_result, result>>
       \/ /\ RecreateErr
          /\ UNCHANGED <<swapchain, swapchains_created, device_objects, images>>
    /\ UNCHANGED <<current_frame, syncVars, queueVars, surface_details,
                   command_buffers, image_index, suboptimal_surface,
                   acquire_result, present_result, recreate_caller,
                   start_frame, exit_code, error_handled,
                   windowVars, histVars, probe, lifeVars>>

\* What one finished recreate_swapchain call read and what it built.
Build ==
    [details  |-> surface_details,
     width    |-> WINDOW_WIDTH,
     height   |-> WINDOW_HEIGHT,
     settings |-> swapchain.settings]

LastTwo(s) == IF Len(s) > MAX_FRAMES_IN_FLIGHT THEN Tail(s) ELSE s

\* vk_app.rs 340-342: self.swapchain.create_framebuffers(...)?; Ok(()), and
\* the continuation at the call site (vk_app.rs 239-240 or 302-307).
RcCreateFramebuffers ==
    /\ pc = "rc_create_framebuffers"
    /\ Log("create_framebuffers")
    /\ \/ /\ swapchain' = create_framebuffers(swapchain, Len(swapchain.image_views))
          /\ recreate_result' = "ok"
          /\ builds' = LastTwo(Append(builds, Build))
          /\ IF recreate_caller = "acquire"
             THEN pc' = "returned" /\ result' = "ok"
             ELSE pc' = "advance" /\ UNCHANGED result
       \/ \E made \in 0 .. (Len(swapchain.image_views) - 1) :
            /\ swapchain' = create_framebuffers(swapchain, made)
            /\ RecreateErr
            /\ UNCHANGED builds
    /\ device_objects' =
          [device_objects EXCEPT
              !.framebuffers = @ \cup SeqRange(swapchain'.framebuffers)]
    /\ UNCHANGED <<current_frame, syncVars, queueVars, surface_details,
                   swapchains_created, images, command_buffers, image_index,
                   suboptimal_surface, acquire_result, present_result,
                   recreate_caller, start_frame, exit_code, error_handled,
                   windowVars, double_destroyed, probe, lifeVars>>

\* ------------------------------------------------------------- GPU side
\* The graphics queue executes a submission: it waits on the submission's
\* wait semaphore, runs the command buffer, then signals the signal
\* semaphore and the fence (vk_app.rs 274-284).
GpuExecute ==
    \E sub \in graphics_queue :
        /\ "fence" \in DOMAIN sub
        /\ image_available_semaphores[sub.wait_semaphore]
        /\ image_available_semaphores' =
              [image_available_semaphores EXCEPT ![sub.wait_semaphore] = FALSE]
        /\ render_finished_semaphores' =
              [render_finished_semaphores EXCEPT ![sub.signal_semaphore] = TRUE]
        /\ in_flight_fences' = [in_flight_fences EXCEPT ![sub.fence] = TRUE]
        /\ graphics_queue' = graphics_queue \ {sub}
        /\ images' = IF sub.image \in DOMAIN images
                     THEN [images EXCEPT ![sub.image].rendered = TRUE]
                     ELSE images
        /\ UNCHANGED <<pc, current_frame, present_queue, presented_unrendered,
                       chainVars, command_buffers, callVars, callLog, result,
                       exit_code, error_handled,
                   windowVars, histVars, probe, lifeVars>>

\* The presentation engine executes the oldest present request of the
\* present queue (requests of one queue are processed in the order they were
\* queued): it waits on the request's wait semaphore, shows the image and
\* releases it (vk_app.rs 289-296).
PresentExecute ==
    /\ present_queue # << >>
    /\ LET p == Head(present_queue) IN
        /\ render_finished_semaphores[p.wait_semaphore]
        /\ render_finished_semaphores' =
              [render_finished_semaphores EXCEPT ![p.wait_semaphore] = FALSE]
        /\ present_queue' = Tail(present_queue)
        /\ presented_unrendered' =
              (presented_unrendered \/ (p.image \in DOMAIN images /\ ~images[p.image].rendered))
        /\ images' = IF p.image \in DOMAIN images
                     THEN [images EXCEPT ![p.image] = [state |-> "free", rendered |-> FALSE]]
                     ELSE images
    /\ UNCHANGED <<pc, current_frame, in_flight_fences,
                   image_available_semaphores, graphics_queue, chainVars,
                   command_buffers, callVars, callLog, result, exit_code, error_handled,
                   windowVars, histVars, probe, lifeVars>>

\* ----------------------------------------------------------------- Drop
\* Mutant of DropOrder: the device is destroyed first.
DropOrder_DeviceFirst ==
    <<"device", "swapchain", "texture_sampler", "texture_image_view">>
    \o create_image("texture_image")
    \o Buffer_cleanup(uniform_buffers(0)) \o Buffer_cleanup(uniform_buffers(1))
    \o <<"descriptor_pool">>
    \o Buffer_cleanup("vertex_buffer") \o Buffer_cleanup("index_buffer")
    \o Pipeline_cleanup \o SyncHandles
    \o <<"command_pool", "surface", "debug_callback", "instance">>

\* vk_app.rs 79-103: what Drop destroys, in order; "swapchain" stands for
\* Swapchain::cleanup, and the image is destroyed before its memory is freed.
DropOrder ==
    <<"swapchain", "texture_sampler", "texture_image_view">>
    \o create_image("texture_image")
    \o Buffer_cleanup(uniform_buffers(0)) \o Buffer_cleanup(uniform_buffers(1))
    \o <<"descriptor_pool">>
    \o Buffer_cleanup("vertex_buffer") \o Buffer_cleanup("index_buffer")
    \o Pipeline_cleanup \o SyncHandles
    \o <<"command_pool", "device", "surface", "debug_callback", "instance">>

\* Destroying a pool frees what was allocated from it.
FreedWithPool == { "descriptor_sets", "command_buffers" }

\* What Drop does once device_wait_idle has returned (vk_app.rs 79-103).
DropCleanup ==
    /\ device_objects' =
          [framebuffers |-> Destroy(device_objects.framebuffers, SeqRange(swapchain.framebuffers)),
           image_views  |-> Destroy(device_objects.image_views, SeqRange(swapchain.image_views)),
           swapchains   |-> Destroy(device_objects.swapchains, {swapchain.vk_swapchain})]
    /\ double_destroyed' =
          double_destroyed \cup (AllObjects(ObjectsOf(swapchain)) \ AllObjects(device_objects))
    /\ live_handles' = (live_handles \ SeqRange(DropOrder)) \ FreedWithPool
    /\ device_log' = device_log \o << <<"wait_idle", "device">> >> \o Destroyed(DropOrder)
    /\ device_memory' = Release(device_memory, SeqRange(DropOrder))
    /\ hazards' = hazards
          \cup { <<"destroy of dead handle", DropOrder[k]>> :
                   k \in { j \in 1 .. Len(DropOrder) :
                             DropOrder[j] \notin live_handles
                             \/ \E i \in 1 .. (j - 1) : DropOrder[i] = DropOrder[j] } }
          \cup (IF DeviceIdle THEN {} ELSE {<<"destroyed while in use", "device">>})
    /\ pc' = "dropped"

\* vk_app.rs 70-107 Drop for VkApp, run when vk_app goes out of scope at
\* `return -1` or at the end of the block of wWinMain (main.rs 126, 132):
\* device_wait_idle blocks until both queues are empty, then everything is
\* destroyed. When device_wait_idle fails, unwrap panics and nothing is
\* destroyed: the variables stay as they are at "exited", which is the
\* behaviour in which this action is never taken.
Drop ==
    /\ pc = "exited"
    /\ DeviceIdle
    /\ DropCleanup
    /\ UNCHANGED <<current_frame, syncVars, queueVars, surface_details,
                   swapchain, swapchains_created, images, command_buffers,
                   callVars, callLog, result, exit_code, error_handled,
                   windowVars, builds, probe, pipeline, texture_file, one_shot>>

\* ------------------------------------------------------------------ Next
Next ==
    \/ window_proc
    \/ GetMessageDraw
    \/ GetMessageQuit
    \/ DrawFrameOk
    \/ DrawFrameErr
    \/ WaitForFences
    \/ AcquireNextImage
    \/ UpdateUniformBuffer
    \/ ResetFences
    \/ ResetCommandBuffer
    \/ RecordCommandBuffer
    \/ QueueSubmit
    \/ QueuePresent
    \/ CheckSuboptimal
    \/ Advance
    \/ RcDeviceWaitIdle
    \/ RcCleanup
    \/ RcGetSurfaceDetails
    \/ RcCreateSwapchain
    \/ RcCreateFramebuffers
    \/ GpuExecute
    \/ PresentExecute
    \/ Drop

Spec == Init /\ [][Next]_vars


\* ============================================================ VkApp::new
\* The functions VkApp::new runs before a VkApp exists are studied one call
\* at a time: probe holds the function, its input, and its output once the
\* call was made.

\* ------------------------------------------------------------------ bounds
MaxListLen == 2    \* longest list of devices, queue families, formats or modes

\* Sequences over `set` of length lo .. MaxListLen.
ListsOf(set, lo) == UNION { [1 .. n -> set] : n \in lo .. MaxListLen }

\* All main-loop variables while VkApp::new is running: no VkApp value
\* exists, the window has its creation size.
Constructing ==
    /\ pc = "new"
    /\ current_frame = 0
    /\ in_flight_fences = [s \in Slots |-> TRUE]
    /\ image_available_semaphores = [s \in Slots |-> FALSE]
    /\ render_finished_semaphores = [s \in Slots |-> FALSE]
    /\ graphics_queue = {}
    /\ present_queue = << >>
    /\ WINDOW_WIDTH = 640
    /\ WINDOW_HEIGHT = 480
    /\ surface_details = << >>
    /\ swapchain = << >>
    /\ images = << >>
    /\ command_buffers = [s \in Slots |-> Unrecorded]
    /\ device_objects = [framebuffers |-> {}, image_views |-> {}, swapchains |-> {}]
    /\ swapchains_created = 0
    /\ image_index = None
    /\ suboptimal_surface = FALSE
    /\ acquire_result = None
    /\ present_result = None
    /\ recreate_caller = None
    /\ recreate_result = None
    /\ start_frame = 0
    /\ callLog = << >>
    /\ result = None
    /\ exit_code = None
    /\ presented_unrendered = FALSE
    /\ error_handled = None
    /\ builds = << >>
    /\ double_destroyed = {}
    /\ pipeline = NoPipeline
    /\ one_shot = NoOneShot
    /\ live_handles = {}
    /\ device_log = << >>
    /\ device_memory = << >>
    /\ hazards = {}

frameVars ==
    <<pc, current_frame, syncVars, queueVars, chainVars, images,
      command_buffers, callVars, callLog, result, exit_code, error_handled,
      windowVars, histVars>>

Call(fn, input) == [fn |-> fn, input |-> input, done |-> FALSE, output |-> << >>]

\* The call under study returns `output`.
Return(fn, output) ==
    /\ pc = "new"
    /\ probe.fn = fn
    /\ ~probe.done
    /\ probe' = [probe EXCEPT !.done = TRUE, !.output = output]
    /\ UNCHANGED <<frameVars, lifeVars>>

Returned(fn) == probe.fn = fn /\ probe.done

\* ------------------------------------------------- required capabilities
\* device.rs 38-40.
VALIDATION_LAYERS == <<"VK_LAYER_KHRONOS_validation">>

EXTENSIONS == <<"VK_KHR_surface", "VK_EXT_debug_utils", "VK_KHR_win32_surface">>

DEVICE_EXTENSIONS == <<"VK_KHR_swapchain">>

\* Names an instance can offer as layers or extensions.
InstanceNames ==
    SeqRange(VALIDATION_LAYERS) \cup SeqRange(EXTENSIONS) \cup {"VK_KHR_display"}

\* extensions.rs 25: Iterator::reduce joining the names with ", ".
RECURSIVE reduce(_)
reduce(names) ==
    IF Len(names) = 1
    THEN names
    ELSE reduce(SubSeq(names, 1, Len(names) - 1)) \o <<", ", names[Len(names)]>>

\* extensions.rs 14-34 Extensions::are_in; the message is the sequence of the
\* pieces the String is concatenated from.
are_in(required, available_extensions) ==
    LET not_found_layers ==
            SelectSeq(required, LAMBDA v : v \notin available_extensions)
    IN  IF not_found_layers # << >>
        THEN [ok |-> FALSE,
              error |-> [kind |-> "DeviceError",
                         message |-> <<"Did not find validation layer(s) ">>
                                       \o reduce(not_found_layers)]]
        ELSE [ok |-> TRUE]

AreInCalls ==
    { Call("are_in", [required |-> required, available |-> available]) :
        required \in {VALIDATION_LAYERS, EXTENSIONS},
        available \in SUBSET InstanceNames }

\* device.rs 166-172: create_instance checks the layers and the extensions.
AreIn ==
    Return("are_in", are_in(probe.input.required, probe.input.available))


\* ------------------------------------------------------ physical devices
\* What the queries of one queue family return: the GRAPHICS flag, and
\* get_physical_device_surface_support ("ERROR" when the query fails).
QueueFamilies ==
    { [graphics |-> g, surface_support |-> p] :
        g \in BOOLEAN, p \in {"TRUE", "FALSE", "ERROR"} }

\* What the surface queries of one device return.
DeviceSurface(failing_query, formats, modes) ==
    [failing_query |-> failing_query,
     details |-> SurfaceDetails(1, 0, Extent2D(640, 480), Extent2D(640, 480),
                                Extent2D(640, 480), formats, modes)]

GoodSurface == DeviceSurface(None, <<SRGB_FORMAT>>, <<"FIFO">>)

\* What the queries of one physical device return.
PhysicalDevice(extensions_ok, extensions, families, surface) ==
    [extension_properties |-> [ok |-> extensions_ok, names |-> extensions],
     queue_families |-> families,
     surface |-> surface]

\* A device with the swapchain extension and a usable surface.
Capable(families) ==
    PhysicalDevice(TRUE, SeqRange(DEVICE_EXTENSIONS), families, GoodSurface)

GraphicsPresentFamily == [graphics |-> TRUE, surface_support |-> "TRUE"]

\* Devices with one defect each, and two devices without any.
DeviceCatalogue ==
    { PhysicalDevice(FALSE, {}, <<GraphicsPresentFamily>>, GoodSurface),
      PhysicalDevice(TRUE, {"VK_KHR_maintenance1"}, <<GraphicsPresentFamily>>,
                     GoodSurface),
      PhysicalDevice(TRUE, SeqRange(DEVICE_EXTENSIONS), <<GraphicsPresentFamily>>,
                     DeviceSurface(None, << >>, <<"FIFO">>)),
      PhysicalDevice(TRUE, SeqRange(DEVICE_EXTENSIONS), <<GraphicsPresentFamily>>,
                     DeviceSurface(None, <<SRGB_FORMAT>>, << >>)),
      PhysicalDevice(TRUE, SeqRange(DEVICE_EXTENSIONS), <<GraphicsPresentFamily>>,
                     DeviceSurface("capabilities", <<SRGB_FORMAT>>, <<"FIFO">>)),
      Capable(<<GraphicsPresentFamily>>),
      Capable(<<[graphics |-> TRUE, surface_support |-> "FALSE"],
                [graphics |-> FALSE, surface_support |-> "TRUE"]>>) }

\* Device lists enumerate_physical_devices returns: every list over the
\* catalogue, and every device with up to MaxListLen queue families of any
\* kind, alone or followed by a device without defect.
PhysicalDeviceLists ==
    ListsOf(DeviceCatalogue, 0)
    \cup { <<Capable(families)>> : families \in ListsOf(QueueFamilies, 0) }
    \cup { <<Capable(families), Capable(<<GraphicsPresentFamily>>)>> :
             families \in ListsOf(QueueFamilies, 0) }

\* presentation.rs 39-62 get_surface_details.
get_surface_details(surface) ==
    IF surface.failing_query = "formats"
    THEN [ok |-> FALSE, error |-> [kind |-> "VkError", message |-> "formats"]]
    ELSE IF Len(surface.details.formats) = 0
    THEN [ok |-> FALSE,
          error |-> [kind |-> "DeviceError",
                     message |-> "Device does not have any supported surface formats"]]
    ELSE IF surface.failing_query = "present_modes"
    THEN [ok |-> FALSE, error |-> [kind |-> "VkError", message |-> "present_modes"]]
    ELSE IF Len(surface.details.present_modes) = 0
    THEN [ok |-> FALSE,
          error |-> [kind |-> "DeviceError",
                     message |-> "Device does not have any supported surface present modes"]]
    ELSE IF surface.failing_query = "capabilities"
    THEN [ok |-> FALSE, error |-> [kind |-> "VkError", message |-> "capabilities"]]
    ELSE [ok |-> TRUE, details |-> surface.details]

\* device.rs 276-279: the locals of the queue family loop.
NoFamilies ==
    [graphics_family_index |-> 0, present_family_index |-> 0,
     graphics_support |-> FALSE, present_support |-> FALSE, error |-> FALSE]

\* device.rs 281-297: the loop over the queue families from `index` on; the
\* `?` on get_physical_device_surface_support leaves the whole function.
RECURSIVE queue_family_loop(_, _, _)
queue_family_loop(families, index, found) ==
    IF index >= Len(families)
    THEN found
    ELSE LET family == families[index + 1]
             graphics ==
                 IF family.graphics
                 THEN [found EXCEPT !.graphics_family_index = index,
                                    !.graphics_support = TRUE]
                 ELSE found
             present ==
                 IF family.surface_support = "TRUE"
                 THEN [graphics EXCEPT !.present_family_index = index,
                                       !.present_support = TRUE]
                 ELSE graphics
         IN  IF family.surface_support = "ERROR"
             THEN [graphics EXCEPT !.error = TRUE]
             ELSE IF present.graphics_support /\ present.present_support
             THEN present
             ELSE queue_family_loop(families, index + 1, present)

\* device.rs 221-330: the loop over the physical devices from position i on.
RECURSIVE physical_device_loop(_, _, _)
physical_device_loop(physical_devices, i, supported_devices) ==
    IF i > Len(physical_devices)
    THEN [ok |-> TRUE, supported_devices |-> supported_devices]
    ELSE LET physical_device == physical_devices[i]
             missing_extensions ==
                 SelectSeq(DEVICE_EXTENSIONS,
                           LAMBDA e : e \notin physical_device.extension_properties.names)
             found == queue_family_loop(physical_device.queue_families, 0, NoFamilies)
             surface_settings == get_surface_details(physical_device.surface)
             continue == physical_device_loop(physical_devices, i + 1, supported_devices)
         IN  IF ~physical_device.extension_properties.ok THEN continue
             ELSE IF missing_extensions # << >> THEN continue
             ELSE IF found.error
             THEN [ok |-> FALSE,
                   error |-> [kind |-> "VkError", message |-> "surface_support"]]
             ELSE IF ~found.graphics_support THEN continue
             ELSE IF ~found.present_support THEN continue
             ELSE IF ~surface_settings.ok THEN continue
             ELSE physical_device_loop(physical_devices, i + 1,
                      Append(supported_devices,
                             [vk_physical_device    |-> i,
                              graphics_family_index |-> found.graphics_family_index,
                              present_family_index  |-> found.present_family_index,
                              surface_details       |-> surface_settings.details]))

\* device.rs 215-333 get_physical_devices.
get_physical_devices(physical_devices) ==
    physical_device_loop(physical_devices, 1, << >>)

\* vk_app.rs 119-127: "just get the first device".
select_physical_device(physical_devices) ==
    LET supported == get_physical_devices(physical_devices)
    IN  IF ~supported.ok
        THEN supported
        ELSE IF Len(supported.supported_devices) = 0
        THEN [ok |-> FALSE,
              error |-> [kind |-> "DeviceError", message |-> "No supported devices"]]
        ELSE [ok |-> TRUE, physical_device |-> supported.supported_devices[1]]

SelectCalls ==
    { Call("get_physical_devices", devices) : devices \in PhysicalDeviceLists }

\* vk_app.rs 119-127: VkApp::new enumerates the devices and takes the first.
GetPhysicalDevices ==
    Return("get_physical_devices", select_physical_device(probe.input))

\* --------------------------------------------------------- logical device
\* A DeviceQueueCreateInfo (device.rs 344-346).
DeviceQueueCreateInfo(index) ==
    [queue_family_index |-> index, queue_priorities |-> <<"1.0">>]

\* Mutant of get_queue_create_infos: one entry per element, no HashSet.
get_queue_create_infos_PerElement(queue_indices) ==
    { [k \in 1 .. Len(queue_indices) |-> DeviceQueueCreateInfo(queue_indices[k])] }

\* device.rs 336-349 get_queue_create_infos: the indices are collected into
\* a HashSet, whose iteration order is unspecified; every order is returned.
get_queue_create_infos(queue_indices) ==
    LET unique == SeqRange(queue_indices)
    IN  { [k \in 1 .. Cardinality(unique) |-> DeviceQueueCreateInfo(order[k])] :
            order \in { o \in [1 .. Cardinality(unique) -> unique] :
                          \A a, b \in 1 .. Cardinality(unique) :
                              o[a] = o[b] => a = b } }

\* vkGetDeviceQueue: the queue of a family at an index.
get_device_queue(queue_family_index, queue_index) ==
    <<queue_family_index, queue_index>>

LogicalDeviceCalls ==
    { Call("create_logical_device",
           [graphics_family_index |-> g, present_family_index |-> p]) :
        g \in 0 .. MaxListLen, p \in 0 .. MaxListLen }

\* device.rs 351-366 create_logical_device and vk_app.rs 133-138: the queue
\* create infos passed to create_device and the two queues fetched from it.
CreateLogicalDevice ==
    /\ probe.fn = "create_logical_device"
    /\ \E queue_create_infos \in
          get_queue_create_infos(<<probe.input.graphics_family_index,
                                   probe.input.present_family_index>>) :
          Return("create_logical_device",
                 [queue_create_infos |-> queue_create_infos,
                  graphics_queue |-> get_device_queue(probe.input.graphics_family_index, 0),
                  present_queue  |-> get_device_queue(probe.input.present_family_index, 0)])


\* ----------------------------------------------------- swapchain settings
\* Extents a surface reports as current: the undefined one and real sizes.
CurrentExtents ==
    { UndefinedExtent, Extent2D(640, 480), Extent2D(800, 600), Extent2D(0, 0) }

\* min_image_extent and max_image_extent a surface reports (min <= max).
ExtentRanges ==
    { <<Extent2D(1, 1), Extent2D(720, 540)>>,
      <<Extent2D(700, 500), Extent2D(4096, 4096)>>,
      <<Extent2D(640, 480), Extent2D(640, 480)>> }

\* Client sizes WM_SIZE can have stored: two 16 bit words.
ClientSizes == WindowSizes \cup { <<0, 0>>, <<700, 480>>, <<(2 ^ 16) - 1, (2 ^ 16) - 1>> }

SurfaceFormats ==
    { SRGB_FORMAT, UNORM_FORMAT,
      [format |-> "B8G8R8A8_SRGB", color_space |-> "EXTENDED_SRGB_LINEAR_EXT"],
      [format |-> "R8G8B8A8_SRGB", color_space |-> "SRGB_NONLINEAR"] }

PresentModes == { "IMMEDIATE", "MAILBOX", "FIFO", "FIFO_RELAXED" }

\* Calls of get_swapchain_settings: every extent report with every window
\* size, every non-empty format list and every non-empty present mode list.
SettingsCalls ==
    { Call("get_swapchain_settings",
           [details |-> SurfaceDetails(1, 0, cur, range[1], range[2],
                                       <<SRGB_FORMAT>>, <<"FIFO">>),
            width |-> size[1], height |-> size[2]]) :
        cur \in CurrentExtents, range \in ExtentRanges, size \in ClientSizes }
    \cup
    { Call("get_swapchain_settings",
           [details |-> SurfaceDetails(1, 0, Extent2D(640, 480), Extent2D(640, 480),
                                       Extent2D(640, 480), formats, <<"FIFO">>),
            width |-> 640, height |-> 480]) :
        formats \in ListsOf(SurfaceFormats, 1) }
    \cup
    { Call("get_swapchain_settings",
           [details |-> SurfaceDetails(1, 0, Extent2D(640, 480), Extent2D(640, 480),
                                       Extent2D(640, 480), <<SRGB_FORMAT>>, modes),
            width |-> 640, height |-> 480]) :
        modes \in ListsOf(PresentModes, 1) }

\* presentation.rs 203: create_swapchain asks for the settings.
GetSwapchainSettings ==
    Return("get_swapchain_settings",
           get_swapchain_settings(probe.input.details, probe.input.width,
                                  probe.input.height))

\* Calls of create_swapchain, for the image count: every minimum up to one
\* above MaxMinImageCount with every maximum, 0 and maxima below the minimum
\* included.
ImageCountCalls ==
    { Call("create_swapchain",
           SurfaceDetails(mn, mx, Extent2D(640, 480), Extent2D(640, 480),
                          Extent2D(640, 480), <<SRGB_FORMAT>>, <<"FIFO">>)) :
        mn \in 0 .. (MaxMinImageCount + 1), mx \in 0 .. (MaxMinImageCount + 3) }

\* presentation.rs 205-215: the image count create_swapchain asks for.
CreateSwapchainImageCount ==
    Return("create_swapchain", RequestedImageCount(probe.input))

\* ---------------------------------------------------------- memory types
\* vk::MemoryPropertyFlags bits the program asks for (buffers.rs 73, 81).
MemoryPropertyFlags == { "DEVICE_LOCAL", "HOST_VISIBLE", "HOST_COHERENT" }

\* VkPhysicalDeviceMemoryProperties: memory_type_count and the property
\* flags of each type, here as the list of the first memory_type_count types.
MemoryTypeLists == ListsOf(SUBSET MemoryPropertyFlags, 0)

\* Bit i of a u32.
Bit(mask, i) == (mask \div (2 ^ i)) % 2

\* Mutant of find_memory_type: one common flag is enough.
RECURSIVE find_memory_type_AnyFlag(_, _, _, _)
find_memory_type_AnyFlag(memory_types, type_filter, properties, i) ==
    IF i >= Len(memory_types)
    THEN [ok |-> FALSE,
          error |-> [kind |-> "DeviceError",
                     message |-> "Failed to find suitable memory type"]]
    ELSE IF Bit(type_filter, i) # 0
            /\ (memory_types[i + 1] \cap properties # {} \/ properties = {})
    THEN [ok |-> TRUE, index |-> i]
    ELSE find_memory_type_AnyFlag(memory_types, type_filter, properties, i + 1)

\* buffers.rs 351-364 find_memory_type: the loop from index i on.
RECURSIVE find_memory_type(_, _, _, _)
find_memory_type(memory_types, type_filter, properties, i) ==
    IF i >= Len(memory_types)
    THEN [ok |-> FALSE,
          error |-> [kind |-> "DeviceError",
                     message |-> "Failed to find suitable memory type"]]
    ELSE IF Bit(type_filter, i) # 0
            /\ (memory_types[i + 1] \cap properties) = properties
    THEN [ok |-> TRUE, index |-> i]
    ELSE find_memory_type(memory_types, type_filter, properties, i + 1)

\* Calls of find_memory_type: every type list of up to MaxListLen types,
\* every filter over those bits and the next one, and the flag sets the
\* program asks for.
MemoryTypeCalls ==
    { Call("find_memory_type",
           [memory_types |-> types, type_filter |-> filter, properties |-> flags]) :
        types \in MemoryTypeLists,
        filter \in 0 .. (2 ^ (MaxListLen + 1) - 1),
        flags \in { {"DEVICE_LOCAL"}, {"HOST_VISIBLE", "HOST_COHERENT"} } }

\* buffers.rs 265, textures.rs 154: create_buffer and create_image look the
\* memory type up.
FindMemoryType ==
    Return("find_memory_type",
           find_memory_type(probe.input.memory_types, probe.input.type_filter,
                            probe.input.properties, 0))

\* ------------------------------------------------- create_descriptor_sets
\* A descriptor set nothing was written to.
Unwritten ==
    [binding_0 |-> None, binding_1 |-> [image_view |-> None, sampler |-> None]]

\* buffers.rs 213-243: the two writes made for one pair of the zip.
WrittenSet(uniform_buffer, texture_image_view, texture_sampler) ==
    [binding_0 |-> uniform_buffer,
     binding_1 |-> [image_view |-> texture_image_view, sampler |-> texture_sampler]]

\* buffers.rs 192-246 create_descriptor_sets, for `allocated` sets returned
\* by allocate_descriptor_sets: the size check, then one pair of writes per
\* element of descriptor_sets.iter().zip(uniform_buffers.iter()).
create_descriptor_sets(allocated, buffers, texture_image_view, texture_sampler) ==
    IF allocated # MAX_FRAMES_IN_FLIGHT /\ Len(buffers) # MAX_FRAMES_IN_FLIGHT
    THEN [ok |-> FALSE,
          error |-> [kind |-> "DeviceError",
                     message |-> "Descriptor sets and uniform buffers must be same size as MAX_FRAMES_IN_FLIGHT"]]
    ELSE [ok |-> TRUE,
          descriptor_sets |->
              [i \in 1 .. allocated |->
                  IF i <= Len(buffers)
                  THEN WrittenSet(buffers[i], texture_image_view, texture_sampler)
                  ELSE Unwritten]]

\* Calls with fewer, as many and more sets and uniform buffers than
\* MAX_FRAMES_IN_FLIGHT.
DescriptorSetCalls ==
    { Call("create_descriptor_sets",
           [allocated |-> n,
            uniform_buffers |-> [k \in 1 .. m |-> uniform_buffers(k - 1)]]) :
        n \in 0 .. (MAX_FRAMES_IN_FLIGHT + 1),
        m \in 0 .. (MAX_FRAMES_IN_FLIGHT + 1) }

\* vk_app.rs 180-187: VkApp::new creates the descriptor sets.
CreateDescriptorSets ==
    Return("create_descriptor_sets",
           create_descriptor_sets(probe.input.allocated, probe.input.uniform_buffers,
                                  "texture_image_view", "texture_sampler"))

\* ------------------------------------------------- size of the texture
\* Unsigned integers are written as their bytes, least significant first,
\* so that 32 bit and 64 bit values keep their width.
U32(n) == [k \in 1 .. 4 |-> (n \div (256 ^ (k - 1))) % 256]

\* `as u64`, `as usize`: the value with zero bytes added up to n bytes.
Widen(a, n) == a \o [k \in 1 .. (n - Len(a)) |-> 0]

\* The sum of the byte products that fall on byte k of a * b.
RECURSIVE DigitSum(_, _, _, _)
DigitSum(a, b, k, i) ==
    IF i > k
    THEN 0
    ELSE (IF i <= Len(a) /\ k + 1 - i <= Len(b) THEN a[i] * b[k + 1 - i] ELSE 0)
         + DigitSum(a, b, k, i + 1)

\* Bytes k .. n of a * b, given the carry into byte k.
RECURSIVE MulDigits(_, _, _, _, _)
MulDigits(a, b, k, carry, n) ==
    IF k > n
    THEN << >>
    ELSE LET t == carry + DigitSum(a, b, k, 1)
         IN  <<t % 256>> \o MulDigits(a, b, k + 1, t \div 256, n)

\* The mathematical product a * b, in Len(a) + Len(b) bytes.
Product(a, b) == MulDigits(a, b, 1, 0, Len(a) + Len(b))

\* u32 * u32 when overflow checks are off: the low 32 bits of the product.
wrapping_mul(a, b) == MulDigits(a, b, 1, 0, 4)

\* The multiplication of two u32 overflows.
Overflows(a, b) == Widen(wrapping_mul(a, b), 8) # Product(a, b)

\* textures.rs 30: (info.width * info.height * 4) as vk::DeviceSize. The
\* arithmetic is done in u32; a build with overflow checks panics on an
\* overflow, a build without them keeps the low 32 bits.
image_size(width, height, overflow_checks) ==
    LET pixels == wrapping_mul(width, height)
    IN  IF overflow_checks /\ (Overflows(width, height) \/ Overflows(pixels, U32(4)))
        THEN [panic |-> TRUE, image_size |-> Widen(U32(0), 8)]
        ELSE [panic |-> FALSE,
              image_size |-> Widen(wrapping_mul(pixels, U32(4)), 8)]

\* textures.rs 18-20: the length of the decoded frame of an RGBA image, 4
\* samples of bit_depth bits per pixel, computed by the decoder in usize.
output_buffer_size(width, height, bit_depth) ==
    Product(Product(width, height), U32(4 * (bit_depth \div 8)))

\* Widths and heights of a PNG: small ones, the powers of two at which
\* width * height * 4 reaches 2^32, and the largest a PNG header can hold.
TextureDimensions ==
    { U32(1), U32(640), U32(2 ^ 15), U32(2 ^ 16), U32(2147483647) }

ImageSizeCalls ==
    { Call("image_size",
           [width |-> w, height |-> h, bit_depth |-> depth, overflow_checks |-> checks]) :
        w \in TextureDimensions, h \in TextureDimensions,
        depth \in {8, 16}, checks \in BOOLEAN }

\* textures.rs 30-41: create_texture_image computes the size it creates
\* the staging buffer with and copies.
ImageSize ==
    Return("image_size",
           image_size(probe.input.width, probe.input.height,
                      probe.input.overflow_checks))

\* ------------------------------------------------- VkApp::new, step by step
\* The frame state VkApp::new never touches.
newFrame ==
    <<current_frame, present_queue, presented_unrendered, command_buffers,
      callVars, callLog, result, windowVars, histVars, probe>>

\* main.rs 111-117: the state when wWinMain calls VkApp::new; WM_SIZE may
\* already have stored a client size.
InitSetup ==
    /\ pc = "create_instance"
    /\ current_frame = 0
    /\ in_flight_fences = [s \in Slots |-> FALSE]
    /\ image_available_semaphores = [s \in Slots |-> FALSE]
    /\ render_finished_semaphores = [s \in Slots |-> FALSE]
    /\ graphics_queue = {}
    /\ present_queue = << >>
    /\ \E size \in WindowSizes :
          /\ WINDOW_WIDTH = size[1]
          /\ WINDOW_HEIGHT = size[2]
    /\ surface_details = << >>
    /\ swapchain = << >>
    /\ images = << >>
    /\ command_buffers = [s \in Slots |-> Unrecorded]
    /\ device_objects = [framebuffers |-> {}, image_views |-> {}, swapchains |-> {}]
    /\ swapchains_created = 0
    /\ image_index = None
    /\ suboptimal_surface = FALSE
    /\ acquire_result = None
    /\ present_result = None
    /\ recreate_caller = None
    /\ recreate_result = None
    /\ start_frame = 0
    /\ callLog = << >>
    /\ result = None
    /\ exit_code = None
    /\ presented_unrendered = FALSE
    /\ error_handled = None
    /\ builds = << >>
    /\ double_destroyed = {}
    /\ probe = NoProbe
    /\ pipeline = NoPipeline
    /\ texture_file \in TextureFiles
    /\ one_shot = NoOneShot
    /\ live_handles = {}
    /\ device_log = << >>
    /\ device_memory = << >>
    /\ hazards = {}

\* `?` on an Err inside VkApp::new: wWinMain shows the error and returns -1
\* (main.rs 113-116); no VkApp value exists, so nothing is dropped.
NewErr(error) ==
    /\ pc' = "new_failed"
    /\ exit_code' = -1
    /\ error_handled' = error

NewGoto(next) ==
    /\ pc' = next
    /\ UNCHANGED <<exit_code, error_handled>>

\* The device creates the handles of `handles` in order.
Create(handles) ==
    /\ live_handles' = live_handles \cup SeqRange(handles)
    /\ device_log' = device_log \o Created(handles)

\* A call at `at` that creates `handles` one after the other; when one of
\* the creations fails, the handles made before it stay behind.
CreateStep(at, handles, next) ==
    /\ pc = at
    /\ \/ /\ Create(handles)
          /\ NewGoto(next)
       \/ \E made \in 0 .. (Len(handles) - 1) :
            /\ Create(SubSeq(handles, 1, made))
            /\ NewErr("VkError")

\* A CreateStep that touches nothing else.
PlainCreateStep(at, handles, next) ==
    /\ CreateStep(at, handles, next)
    /\ UNCHANGED <<newFrame, syncVars, graphics_queue, chainVars, images,
                   pipeline, texture_file, one_shot, device_memory, hazards>>

\* The calls of VkApp::new that create one handle each and touch nothing
\* else: where each is called, what it creates and what VkApp::new calls
\* next (vk_app.rs 115, 116, 117, 119-138, 144, 155, 157, 178, 180, 189).
NewCalls ==
    { <<"create_instance", "instance", "create_debug_messenger">>,
      <<"create_debug_messenger", "debug_callback", "create_surface">>,
      <<"create_surface", "surface", "create_device">>,
      <<"create_device", "device", "create_swapchain">>,
      <<"create_command_pool", "command_pool", "create_texture_image">>,
      <<"create_texture_image_view", "texture_image_view", "create_texture_sampler">>,
      <<"create_texture_sampler", "texture_sampler",
        "create_vertex_buffer:create_staging">>,
      <<"create_descriptor_pool", "descriptor_pool", "create_descriptor_sets">>,
      <<"create_descriptor_sets", "descriptor_sets", "create_command_buffers">>,
      <<"create_command_buffers", "command_buffers", "create_sync_objects">> }

CreateHandle ==
    \E call \in NewCalls : PlainCreateStep(call[1], <<call[2]>>, call[3])

\* vk_app.rs 131, 140: the surface details of the selected device and the
\* first swapchain.
NewCreateSwapchain ==
    /\ pc = "create_swapchain"
    /\ \/ /\ surface_details' \in { d \in SurfaceDetailsSet : ValidDetails(d) }
          /\ \E n \in DriverImageCounts(surface_details') :
                /\ swapchain' = create_swapchain(1, n,
                      get_swapchain_settings(surface_details', WINDOW_WIDTH,
                                             WINDOW_HEIGHT))
                /\ images' = FreshImages(n)
          /\ swapchains_created' = 1
          /\ device_objects' = ObjectsOf(swapchain')
          /\ Create(<<"swapchain">>)
          /\ NewGoto("create_pipeline")
       \/ /\ NewErr("VkError")
          /\ UNCHANGED <<chainVars, images, live_handles, device_log>>
    /\ UNCHANGED <<newFrame, syncVars, graphics_queue, pipeline, texture_file,
                   one_shot, device_memory, hazards>>

\* vk_app.rs 141: the pipeline, its render pass built for the format of the
\* first swapchain.
CreatePipeline ==
    /\ CreateStep("create_pipeline", PipelineHandles, "create_framebuffers")
    /\ pipeline' = IF pc' = "new_failed" THEN pipeline
                   ELSE create_pipeline(swapchain.settings)
    /\ UNCHANGED <<newFrame, syncVars, graphics_queue, chainVars, images,
                   texture_file, one_shot, device_memory, hazards>>

\* vk_app.rs 142: one framebuffer per image view.
NewCreateFramebuffers ==
    /\ pc = "create_framebuffers"
    /\ \/ /\ swapchain' = create_framebuffers(swapchain, Len(swapchain.image_views))
          /\ NewGoto("create_command_pool")
       \/ \E made \in 0 .. (Len(swapchain.image_views) - 1) :
            /\ swapchain' = create_framebuffers(swapchain, made)
            /\ NewErr("VkError")
    /\ device_objects' =
          [device_objects EXCEPT
              !.framebuffers = @ \cup SeqRange(swapchain'.framebuffers)]
    /\ UNCHANGED <<newFrame, syncVars, graphics_queue, surface_details,
                   swapchains_created, images, lifeVars>>

\* A buffer and its memory are both alive.
Usable(handle) == {handle, Memory(handle)} \subseteq live_handles

\* buffers.rs 249-280 create_buffer called at `at`: create_buffer,
\* find_memory_type, allocate_memory, bind_buffer_memory, each followed by
\* `?`; an error returns at once with what was made so far, also when the
\* buffer and its memory both exist and the binding fails.
CreateBufferStep(at, buffer, next) ==
    /\ \/ CreateStep(at, create_buffer(buffer), next)
       \/ /\ pc = at
          /\ Create(create_buffer(buffer))
          /\ NewErr("VkError")
    /\ device_memory' = IF pc' = "new_failed" THEN device_memory
                        ELSE Allocate(device_memory, buffer, None)
    /\ UNCHANGED <<newFrame, syncVars, graphics_queue, chainVars, images,
                   pipeline, texture_file, one_shot, hazards>>

\* The host maps the memory of `buffer`, copies `payload` into it and unmaps
\* it (buffers.rs 38-49, textures.rs 37-41).
MemcpyStep(at, buffer, payload, next) ==
    /\ pc = at
    /\ \/ /\ device_memory' = [device_memory EXCEPT ![buffer].contents = payload]
          /\ device_log' = Append(device_log, <<"write", buffer>>)
          /\ hazards' = IF Usable(buffer) THEN hazards
                        ELSE hazards \cup {<<"write to released buffer", buffer>>}
          /\ NewGoto(next)
       \/ /\ NewErr("VkError")
          /\ UNCHANGED <<device_memory, device_log, hazards>>
    /\ UNCHANGED <<newFrame, syncVars, graphics_queue, chainVars, images,
                   pipeline, texture_file, one_shot, live_handles>>

\* A function calls begin_single_time_commands to record `commands` and will
\* go on at `next` when end_single_time_commands has returned.
OneShotStep(at, commands, next) ==
    /\ pc = at
    /\ one_shot' = [commands |-> commands, return |-> next]
    /\ NewGoto("begin_single_time_commands")
    /\ UNCHANGED <<newFrame, syncVars, graphics_queue, chainVars, images,
                   pipeline, texture_file, live_handles, device_log,
                   device_memory, hazards>>

\* The handles of `handles` are destroyed in order; destroying a handle that
\* is not alive is recorded.
DestroyHandles(handles) ==
    /\ live_handles' = live_handles \ SeqRange(handles)
    /\ device_log' = device_log \o Destroyed(handles)
    /\ device_memory' = Release(device_memory, SeqRange(handles))
    /\ hazards' = hazards \cup
          { <<"destroy of dead handle", handles[k]>> :
              k \in { j \in 1 .. Len(handles) :
                        handles[j] \notin live_handles
                        \/ \E i \in 1 .. (j - 1) : handles[i] = handles[j] } }

\* staging_buffer.cleanup(device) at `at` (buffers.rs 93, 123, textures.rs 78).
CleanupStep(at, buffer, next) ==
    /\ pc = at
    /\ DestroyHandles(Buffer_cleanup(buffer))
    /\ NewGoto(next)
    /\ UNCHANGED <<newFrame, syncVars, graphics_queue, chainVars, images,
                   pipeline, texture_file, one_shot>>

\* ------------------------------------------------ single-time commands
\* buffers.rs 305-323 begin_single_time_commands: one primary command buffer
\* is allocated from the pool and recording begins with ONE_TIME_SUBMIT.
BeginSingleTimeCommands ==
    /\ pc = "begin_single_time_commands"
    /\ \/ /\ NewErr("VkError")
          /\ UNCHANGED <<live_handles, device_log>>
       \/ /\ live_handles' = live_handles \cup {"single_time_command_buffer"}
          /\ device_log' = Append(device_log,
                                  <<"allocate", "single_time_command_buffer">>)
          /\ NewErr("VkError")
       \/ /\ live_handles' = live_handles \cup {"single_time_command_buffer"}
          /\ device_log' = device_log \o
                <<<<"allocate", "single_time_command_buffer">>,
                  <<"begin ONE_TIME_SUBMIT", "single_time_command_buffer">>>>
          /\ NewGoto("record")
    /\ UNCHANGED <<newFrame, syncVars, graphics_queue, chainVars, images,
                   pipeline, texture_file, one_shot, device_memory, hazards>>

ImageLayouts ==
    { "UNDEFINED", "GENERAL", "TRANSFER_SRC_OPTIMAL", "TRANSFER_DST_OPTIMAL",
      "SHADER_READ_ONLY_OPTIMAL", "PRESENT_SRC_KHR" }

\* textures.rs 203-230: the stages of a layout transition, or its rejection.
transition_stages(old_layout, new_layout) ==
    IF old_layout = "UNDEFINED" /\ new_layout = "TRANSFER_DST_OPTIMAL"
    THEN [ok |-> TRUE, source_stage |-> "TOP_OF_PIPE", destination_stage |-> "TRANSFER"]
    ELSE IF old_layout = "TRANSFER_DST_OPTIMAL"
            /\ new_layout = "SHADER_READ_ONLY_OPTIMAL"
    THEN [ok |-> TRUE, source_stage |-> "TRANSFER",
          destination_stage |-> "FRAGMENT_SHADER"]
    ELSE [ok |-> FALSE,
          error |-> [kind |-> "DeviceError", message |-> "Unsupported layout transition"]]

\* The caller records its command into the command buffer: cmd_copy_buffer
\* (buffers.rs 293-294), cmd_copy_buffer_to_image (textures.rs 259-276), or
\* cmd_pipeline_barrier unless the layout pair is rejected (textures.rs
\* 203-243).
RecordCommands ==
    /\ pc = "record"
    /\ IF one_shot.commands.op = "pipeline_barrier"
          /\ ~transition_stages(one_shot.commands.old_layout,
                                one_shot.commands.new_layout).ok
       THEN /\ NewErr("DeviceError: Unsupported layout transition")
            /\ UNCHANGED device_log
       ELSE /\ device_log' = Append(device_log,
                                    <<"record", CommandName(one_shot.commands)>>)
            /\ NewGoto("end_single_time_commands")
    /\ UNCHANGED <<newFrame, syncVars, graphics_queue, chainVars, images,
                   pipeline, texture_file, one_shot, live_handles,
                   device_memory, hazards>>

\* buffers.rs 333-339 end_single_time_commands: end_command_buffer, then
\* queue_submit on the graphics queue without semaphores or fence.
EndSingleTimeCommands ==
    /\ pc = "end_single_time_commands"
    /\ \/ /\ NewErr("VkError")
          /\ UNCHANGED <<device_log, graphics_queue>>
       \/ /\ device_log' = Append(device_log, <<"end", "single_time_command_buffer">>)
          /\ NewErr("VkError")
          /\ UNCHANGED graphics_queue
       \/ /\ device_log' = device_log \o
                <<<<"end", "single_time_command_buffer">>,
                  <<"submit", CommandName(one_shot.commands)>>>>
          /\ graphics_queue' = graphics_queue \cup {[commands |-> one_shot.commands]}
          /\ NewGoto("queue_wait_idle")
    /\ UNCHANGED <<newFrame, syncVars, chainVars, images, pipeline,
                   texture_file, one_shot, live_handles, device_memory, hazards>>

\* Mutant of QueueWaitIdle: the command buffer is freed without waiting.
QueueWaitIdle_NoWait ==
    /\ pc = "queue_wait_idle"
    /\ \/ /\ NewErr("VkError")
          /\ UNCHANGED <<device_log, live_handles, one_shot, hazards>>
       \/ /\ device_log' = device_log \o
                <<<<"wait_idle", "graphics_queue">>,
                  <<"free", "single_time_command_buffer">>>>
          /\ live_handles' = live_handles \ {"single_time_command_buffer"}
          /\ hazards' = IF graphics_queue = {} THEN hazards
                        ELSE hazards \cup {<<"freed while pending",
                                             "single_time_command_buffer">>}
          /\ one_shot' = NoOneShot
          /\ NewGoto(one_shot.return)
    /\ UNCHANGED <<newFrame, syncVars, graphics_queue, chainVars, images,
                   pipeline, texture_file, device_memory>>

\* buffers.rs 340-345 end_single_time_commands: queue_wait_idle blocks until
\* the graphics queue is empty, then the command buffer is freed and the
\* helper returns to its caller.
QueueWaitIdle ==
    /\ pc = "queue_wait_idle"
    /\ \/ /\ NewErr("VkError")
          /\ UNCHANGED <<device_log, live_handles, one_shot, hazards>>
       \/ /\ graphics_queue = {}
          /\ device_log' = device_log \o
                <<<<"wait_idle", "graphics_queue">>,
                  <<"free", "single_time_command_buffer">>>>
          /\ live_handles' = live_handles \ {"single_time_command_buffer"}
          /\ hazards' = IF graphics_queue = {} THEN hazards
                        ELSE hazards \cup {<<"freed while pending",
                                             "single_time_command_buffer">>}
          /\ one_shot' = NoOneShot
          /\ NewGoto(one_shot.return)
    /\ UNCHANGED <<newFrame, syncVars, graphics_queue, chainVars, images,
                   pipeline, texture_file, device_memory>>

\* What a transfer command leaves in device memory when the GPU runs it.
Execute(commands, memory) ==
    IF commands.op = "pipeline_barrier"
    THEN [memory EXCEPT ![commands.image].layout = commands.new_layout]
    ELSE [memory EXCEPT ![commands.dst].contents =
             IF commands.src \in DOMAIN memory
             THEN memory[commands.src].contents
             ELSE "garbage"]

\* What goes wrong when the GPU runs a transfer command in this state.
ExecuteHazards(commands) ==
    IF commands.op = "pipeline_barrier"
    THEN IF commands.old_layout \in {"UNDEFINED", device_memory[commands.image].layout}
         THEN {}
         ELSE {<<"barrier from wrong layout", commands.image>>}
    ELSE (IF Usable(commands.src) THEN {}
          ELSE {<<"copy reads released buffer", commands.src>>})
         \cup
         (IF commands.op = "copy_buffer_to_image"
             /\ device_memory[commands.dst].layout # "TRANSFER_DST_OPTIMAL"
          THEN {<<"copy outside TRANSFER_DST", commands.dst>>}
          ELSE {})

\* The graphics queue executes a single-time submission (buffers.rs 339).
TransferExecute ==
    \E sub \in graphics_queue :
        /\ "commands" \in DOMAIN sub
        /\ device_memory' = Execute(sub.commands, device_memory)
        /\ hazards' = hazards \cup ExecuteHazards(sub.commands)
        /\ device_log' = Append(device_log, <<"executed", CommandName(sub.commands)>>)
        /\ graphics_queue' = graphics_queue \ {sub}
        /\ UNCHANGED <<pc, exit_code, error_handled, newFrame, syncVars,
                       chainVars, images, pipeline, texture_file, one_shot,
                       live_handles>>

\* --------------------------------------------------- upload, byte by byte
\* Payloads of an upload: slices of one to MaxListLen elements of one or two
\* bytes each, as VERTICES and INDICES are slices of fixed-size elements.
ByteValues == {0, 255}

ElementSizes == {1, 2}

Payloads ==
    UNION { { [elem_size |-> e, data |-> d] :
                d \in ListsOf([1 .. e -> ByteValues], 1) } : e \in ElementSizes }

\* A byte of memory nothing was written to yet.
Uninitialized == -1

\* size_of_val of a slice: its length times the size of an element.
size_of_val(src_data) == Len(src_data.data) * src_data.elem_size

\* The bytes a slice occupies in host memory, element after element.
BytesOf(src_data) ==
    [i \in 1 .. size_of_val(src_data) |->
        src_data.data[((i - 1) \div src_data.elem_size) + 1]
                     [((i - 1) % src_data.elem_size) + 1]]

\* The bytes of a buffer that create_buffer has just made (buffers.rs 259-278).
NewBytes(size) == [i \in 1 .. size |-> Uninitialized]

\* Mutant of buffer_memcpy: as many bytes as the slice has elements.
buffer_memcpy_LenBytes(buffer_memory, src_data) ==
    [i \in 1 .. Len(buffer_memory) |->
        IF i <= Len(src_data.data) THEN BytesOf(src_data)[i] ELSE buffer_memory[i]]

\* buffers.rs 38-49 buffer_memcpy: copy_nonoverlapping of src_data.len()
\* elements of T to the start of the mapped memory.
buffer_memcpy(buffer_memory, src_data) ==
    [i \in 1 .. Len(buffer_memory) |->
        IF i <= Len(src_data.data) * src_data.elem_size
        THEN BytesOf(src_data)[i]
        ELSE buffer_memory[i]]

\* buffers.rs 293-294: cmd_copy_buffer with one region of `size` bytes at
\* offset 0 of both buffers.
cmd_copy_buffer(src_buffer, dst_buffer, size) ==
    [i \in 1 .. Len(dst_buffer) |->
        IF i <= size THEN src_buffer[i] ELSE dst_buffer[i]]

\* buffers.rs 51-96, 98-126: what the destination buffer holds when
\* create_vertex_buffer or create_index_buffer returns Ok.
upload(src_data) ==
    LET buffer_size == size_of_val(src_data)
        staging_buffer == buffer_memcpy(NewBytes(buffer_size), src_data)
    IN  cmd_copy_buffer(staging_buffer, NewBytes(buffer_size), buffer_size)

UploadCalls == { Call("upload", p) : p \in Payloads }

\* A payload is uploaded and the destination is read back.
Upload == Return("upload", upload(probe.input))

\* Calls of transition_image_layout with every pair of layouts.
TransitionCalls ==
    { Call("transition_image_layout", [old_layout |-> o, new_layout |-> n]) :
        o \in ImageLayouts, n \in ImageLayouts }

\* textures.rs 176-248 transition_image_layout: what the call returns.
TransitionImageLayout ==
    Return("transition_image_layout",
           transition_stages(probe.input.old_layout, probe.input.new_layout))

\* --------------------------------------------------- create_texture_image
\* Mutant of TexDecode: the colour type is not looked at.
TexDecode_AnyColorType ==
    /\ pc = "create_texture_image"
    /\ IF ~texture_file.found
       THEN NewErr("IoError: file not found")
       ELSE NewGoto("create_texture_image:create_staging")
    /\ UNCHANGED <<newFrame, syncVars, graphics_queue, chainVars, images,
                   lifeVars>>

\* textures.rs 16-28: the file is opened and decoded; a decoded image that
\* is not RGBA is refused before anything is created on the device.
TexDecode ==
    /\ pc = "create_texture_image"
    /\ IF ~texture_file.found
       THEN NewErr("IoError: file not found")
       ELSE IF texture_file.color_type # "Rgba"
       THEN NewErr("IoError: InvalidData: Must be RGBA image")
       ELSE NewGoto("create_texture_image:create_staging")
    /\ UNCHANGED <<newFrame, syncVars, graphics_queue, chainVars, images,
                   lifeVars>>

\* textures.rs 30-34.
TexCreateStaging ==
    CreateBufferStep("create_texture_image:create_staging", Staging("texture_image"),
                     "create_texture_image:copy")

\* textures.rs 37-41: the decoded bytes are copied into the staging memory.
TexCopy ==
    MemcpyStep("create_texture_image:copy", Staging("texture_image"), "pixels",
               "create_texture_image:create_image")

\* textures.rs 43: the image and its memory, in layout UNDEFINED.
TexCreateImage ==
    /\ CreateStep("create_texture_image:create_image", create_image("texture_image"),
                  "create_texture_image:transition_to_transfer_dst")
    /\ device_memory' = IF pc' = "new_failed" THEN device_memory
                        ELSE Allocate(device_memory, "texture_image", "UNDEFINED")
    /\ UNCHANGED <<newFrame, syncVars, graphics_queue, chainVars, images,
                   pipeline, texture_file, one_shot, hazards>>

\* textures.rs 46-76: the three single-time submissions of the texture load,
\* a transition to TRANSFER_DST_OPTIMAL, the copy from the staging buffer and
\* a transition to SHADER_READ_ONLY_OPTIMAL: where each is made, what is
\* recorded and where create_texture_image goes on.
TexCommands ==
    { <<"create_texture_image:transition_to_transfer_dst",
        PipelineBarrier("texture_image", "UNDEFINED", "TRANSFER_DST_OPTIMAL"),
        "create_texture_image:copy_buffer_to_image">>,
      <<"create_texture_image:copy_buffer_to_image",
        CopyBufferToImage(Staging("texture_image"), "texture_image"),
        "create_texture_image:transition_to_shader_read">>,
      <<"create_texture_image:transition_to_shader_read",
        PipelineBarrier("texture_image", "TRANSFER_DST_OPTIMAL",
                        "SHADER_READ_ONLY_OPTIMAL"),
        "create_texture_image:cleanup_staging">> }

TexSubmit ==
    \E step \in TexCommands : OneShotStep(step[1], step[2], step[3])

\* textures.rs 78-80.
TexCleanupStaging ==
    CleanupStep("create_texture_image:cleanup_staging", Staging("texture_image"),
                "create_texture_image_view")

\* ------------------------------- create_vertex_buffer, create_index_buffer
\* The two device-local buffers filled through a staging buffer, the data
\* each receives and where VkApp::new goes on afterwards (vk_app.rs 159-176).
Uploads == { "vertex_buffer", "index_buffer" }

Payload(buffer) == IF buffer = "vertex_buffer" THEN "VERTICES" ELSE "INDICES"

AfterUpload(buffer) ==
    IF buffer = "vertex_buffer" THEN "create_index_buffer:create_staging"
    ELSE "create_uniform_buffers"

At(buffer, step) == "create_" \o buffer \o ":" \o step

\* buffers.rs 63-74, 106.
UploadCreateStaging ==
    \E buffer \in Uploads :
        CreateBufferStep(At(buffer, "create_staging"), Staging(buffer),
                         At(buffer, "buffer_memcpy"))

\* buffers.rs 78, 108: buffer_memcpy into the staging memory.
UploadMemcpy ==
    \E buffer \in Uploads :
        MemcpyStep(At(buffer, "buffer_memcpy"), Staging(buffer), Payload(buffer),
                   At(buffer, "create_buffer"))

\* buffers.rs 80-82, 110-112: the device-local destination.
UploadCreateBuffer ==
    \E buffer \in Uploads :
        CreateBufferStep(At(buffer, "create_buffer"), buffer, At(buffer, "copy_buffer"))

\* Mutant of UploadCopyBuffer: the copy is never recorded or submitted.
UploadCopyBuffer_Skip ==
    \E buffer \in Uploads :
        /\ pc = At(buffer, "copy_buffer")
        /\ NewGoto(At(buffer, "cleanup_staging"))
        /\ UNCHANGED <<newFrame, syncVars, graphics_queue, chainVars, images,
                       lifeVars>>

\* buffers.rs 84-91, 114-121 and 285-302 copy_buffer.
UploadCopyBuffer ==
    \E buffer \in Uploads :
        OneShotStep(At(buffer, "copy_buffer"), CopyBuffer(Staging(buffer), buffer),
                    At(buffer, "cleanup_staging"))

\* buffers.rs 93-95, 123-125.
UploadCleanupStaging ==
    \E buffer \in Uploads :
        CleanupStep(At(buffer, "cleanup_staging"), Staging(buffer), AfterUpload(buffer))

\* ------------------------------------------------------ the rest of new
\* buffers.rs 129-162 create_uniform_buffers: per frame slot a host-visible
\* buffer that stays mapped.
CreateUniformBuffers ==
    /\ CreateStep("create_uniform_buffers", UniformBufferHandles,
                  "create_descriptor_pool")
    /\ device_memory' =
          IF pc' = "new_failed" THEN device_memory
          ELSE Allocate(Allocate(device_memory, uniform_buffers(0), None),
                        uniform_buffers(1), None)
    /\ UNCHANGED <<newFrame, syncVars, graphics_queue, chainVars, images,
                   pipeline, texture_file, one_shot, hazards>>

\* vk_app.rs 191-219 and commands.rs 146-169: the semaphores unsignaled, the
\* fences signaled; VkApp::new returns the VkApp and wWinMain enters its
\* message loop.
CreateSyncObjects ==
    /\ CreateStep("create_sync_objects", SyncHandles, "loop")
    /\ in_flight_fences' = [s \in Slots |-> pc' = "loop"]
    /\ UNCHANGED <<newFrame, image_available_semaphores,
                   render_finished_semaphores, graphics_queue, chainVars, images,
                   pipeline, texture_file, one_shot, device_memory, hazards>>

\* ----------------------------------------------------------- SpecNew
\* textures.rs 176-181: transition_image_layout is called for an image in
\* layout old_layout, with any pair of layouts, on a device that has its
\* command pool; the call starts with begin_single_time_commands.
InitTransition ==
    /\ pc = "begin_single_time_commands"
    /\ \E old_layout \in ImageLayouts, new_layout \in ImageLayouts :
          /\ one_shot =
                [commands |-> PipelineBarrier("texture_image", old_layout, new_layout),
                 return |-> "transition_image_layout:returned"]
          /\ device_memory = Allocate(<< >>, "texture_image", old_layout)
    /\ live_handles = {"instance", "debug_callback", "surface", "device",
                       "command_pool"} \cup SeqRange(create_image("texture_image"))
    /\ device_log = << >>
    /\ hazards = {}
    /\ pipeline = NoPipeline
    /\ texture_file = RgbaFile
    /\ probe = NoProbe
    /\ current_frame = 0
    /\ in_flight_fences = [s \in Slots |-> FALSE]
    /\ image_available_semaphores = [s \in Slots |-> FALSE]
    /\ render_finished_semaphores = [s \in Slots |-> FALSE]
    /\ graphics_queue = {}
    /\ present_queue = << >>
    /\ WINDOW_WIDTH = 640
    /\ WINDOW_HEIGHT = 480
    /\ surface_details = << >>
    /\ swapchain = << >>
    /\ images = << >>
    /\ command_buffers = [s \in Slots |-> Unrecorded]
    /\ device_objects = [framebuffers |-> {}, image_views |-> {}, swapchains |-> {}]
    /\ swapchains_created = 0
    /\ image_index = None
    /\ suboptimal_surface = FALSE
    /\ acquire_result = None
    /\ present_result = None
    /\ recreate_caller = None
    /\ recreate_result = None
    /\ start_frame = 0
    /\ callLog = << >>
    /\ result = None
    /\ exit_code = None
    /\ presented_unrendered = FALSE
    /\ error_handled = None
    /\ builds = << >>
    /\ double_destroyed = {}

InitNew ==
    \/ InitTransition
    \/ /\ Constructing
       /\ texture_file = RgbaFile
       /\ probe \in AreInCalls \cup SelectCalls \cup LogicalDeviceCalls
                      \cup SettingsCalls \cup ImageCountCalls \cup MemoryTypeCalls
                      \cup TransitionCalls \cup UploadCalls
                      \cup DescriptorSetCalls \cup ImageSizeCalls
    \/ InitSetup

NextSetup ==
    \/ CreateHandle
    \/ NewCreateSwapchain
    \/ CreatePipeline
    \/ NewCreateFramebuffers
    \/ TexDecode
    \/ TexCreateStaging
    \/ TexCopy
    \/ TexCreateImage
    \/ TexSubmit
    \/ TexCleanupStaging
    \/ UploadCreateStaging
    \/ UploadMemcpy
    \/ UploadCreateBuffer
    \/ UploadCopyBuffer
    \/ UploadCleanupStaging
    \/ CreateUniformBuffers
    \/ CreateSyncObjects
    \/ BeginSingleTimeCommands
    \/ RecordCommands
    \/ EndSingleTimeCommands
    \/ QueueWaitIdle
    \/ TransferExecute

NextNew ==
    \/ AreIn
    \/ GetPhysicalDevices
    \/ CreateLogicalDevice
    \/ GetSwapchainSettings
    \/ CreateSwapchainImageCount
    \/ FindMemoryType
    \/ TransitionImageLayout
    \/ Upload
    \/ CreateDescriptorSets
    \/ ImageSize
    \/ NextSetup

SpecNew == InitNew /\ [][NextNew]_vars

\* ----------------------------------------------------------- SpecLife
\* The whole run of wWinMain: VkApp::new step by step, the message loop, and
\* Drop.
NextLife ==
    \/ NextSetup
    \/ Next

SpecLife == InitSetup /\ [][NextLife]_vars


\* ================================================================ claims
Has(e) == \E i \in 1 .. Len(callLog) : callLog[i] = e

Count(e) == Cardinality({ i \in 1 .. Len(callLog) : callLog[i] = e })

\* Every occurrence of a precedes every occurrence of b in the call's log.
Before(a, b) ==
    \A i, j \in 1 .. Len(callLog) : (callLog[i] = a /\ callLog[j] = b) => i < j

IsPrefix(s, t) == Len(s) <= Len(t) /\ \A i \in 1 .. Len(s) : s[i] = t[i]

Only(set) == SelectSeq(callLog, LAMBDA e : e \in set)

\* C1: when acquire_next_image reports OUT_OF_DATE, draw_frame calls
\* recreate_swapchain exactly once, returns Ok (when the recreation itself
\* succeeded), leaves current_frame as it was, and neither resets the slot's
\* fence nor resets or records its command buffer, submits or presents.
C1_OutOfDateAcquire ==
    acquire_result = "OUT_OF_DATE" =>
        /\ Count("recreate_swapchain") = 1
        /\ current_frame = start_frame
        /\ in_flight_fences[current_frame]
        /\ \A e \in {"update_uniform_buffer", "reset_fences", "reset_command_buffer",
                     "record_command_buffer", "queue_submit", "queue_present",
                     "advance"} : ~Has(e)
        /\ pc = "returned" => (result = "ok" <=> recreate_result = "ok")

C1_Witness ==
    /\ pc = "returned"
    /\ acquire_result = "OUT_OF_DATE"
    /\ result = "ok"
    /\ swapchain.vk_swapchain = 2

\* C2: whenever draw_frame waits on the in-flight fence of slot current_frame,
\* the fence is signaled or a pending submission that can run will signal it;
\* the fence is reset only after a successful acquire.
C2_FenceWaitNeverStuck ==
    /\ pc = "wait_for_fences" =>
          \/ in_flight_fences[current_frame]
          \/ \E sub \in graphics_queue :
                /\ sub.fence = current_frame
                /\ image_available_semaphores[sub.wait_semaphore]
    /\ Has("reset_fences") => acquire_result \in {"SUCCESS", "SUBOPTIMAL"}

C2_Witness ==
    /\ pc = "wait_for_fences"
    /\ ~in_flight_fences[current_frame]
    /\ swapchains_created > 1

\* C3: the host writes the slot's uniform buffer and resets / re-records the
\* slot's command buffer only while no submission using that slot is still
\* on the GPU.
C3_SlotIdleBeforeReuse ==
    pc \in {"update_uniform_buffer", "reset_fences", "reset_command_buffer",
            "record_command_buffer", "queue_submit"} =>
        \A sub \in graphics_queue : sub.command_buffer # current_frame

C3_Witness ==
    /\ pc = "update_uniform_buffer"
    /\ command_buffers[current_frame] # Unrecorded
    /\ \E sub \in graphics_queue : sub.command_buffer # current_frame

\* C4: when queue_present reports the surface as out of date, draw_frame does
\* not return an error: it recreates the swapchain after presenting and the
\* frame loop goes on.
C4_PresentOutOfDateRecovered ==
    (pc = "returned" /\ present_result = "OUT_OF_DATE") =>
        /\ result = "ok"
        /\ Has("recreate_swapchain")

\* C5: when the acquire succeeds with the suboptimal flag, the frame is still
\* recorded, submitted and presented; recreate_swapchain runs exactly once
\* and only after the present call; the frame counter is advanced after it.
C5_SuboptimalAcquire ==
    acquire_result = "SUBOPTIMAL" =>
        /\ Count("recreate_swapchain") <= 1
        /\ Has("recreate_swapchain") =>
              /\ Has("record_command_buffer")
              /\ Has("queue_submit")
              /\ Has("queue_present")
              /\ Before("queue_present", "recreate_swapchain")
              /\ Before("queue_submit", "queue_present")
        /\ Before("recreate_swapchain", "advance")
        /\ (pc \in {"advance", "returned"} /\ present_result \in {"SUCCESS", "SUBOPTIMAL"}) =>
              Count("recreate_swapchain") = 1
        /\ (pc = "returned" /\ result = "ok") =>
              /\ Count("recreate_swapchain") = 1
              /\ callLog[Len(callLog)] = "advance"
              /\ current_frame = (start_frame + 1) % MAX_FRAMES_IN_FLIGHT

C5_Witness ==
    /\ pc = "returned"
    /\ result = "ok"
    /\ acquire_result = "SUBOPTIMAL"
    /\ swapchain.vk_swapchain = 2
    /\ current_frame = 1

\* C6 as stated: every draw_frame call that does not take the OUT_OF_DATE
\* early return leaves current_frame at (current_frame + 1) mod N, whatever
\* the outcome of the frame.
C6_AdvanceRegardlessOfOutcome ==
    (pc = "returned" /\ acquire_result # "OUT_OF_DATE") =>
        current_frame = (start_frame + 1) % MAX_FRAMES_IN_FLIGHT

\* C6 as amended: current_frame starts at 0 and stays in 0..N-1; a call that
\* returns Ok without the OUT_OF_DATE early return ends with
\* (current_frame + 1) mod N; a call that returns an error or takes the
\* early return ends with current_frame unchanged.
C6_FrameCounterCycles ==
    /\ current_frame = 0
    /\ [][/\ current_frame' \in Slots
          /\ (pc # "returned" /\ pc' = "returned") =>
                current_frame' =
                    IF result' = "ok" /\ acquire_result' # "OUT_OF_DATE"
                    THEN (start_frame' + 1) % MAX_FRAMES_IN_FLIGHT
                    ELSE start_frame'
          /\ pc = "wait_for_fences" => start_frame = current_frame]_vars

C6_Witness ==
    /\ pc = "returned"
    /\ result = "ok"
    /\ acquire_result = "SUCCESS"
    /\ start_frame = 1
    /\ current_frame = 0

\* vk_app.rs 222-310: the calls of one frame in source order.
FrameOrder ==
    <<"wait_for_fences", "acquire_next_image", "update_uniform_buffer",
      "reset_fences", "reset_command_buffer", "record_command_buffer",
      "queue_submit", "queue_present", "advance">>

\* C7: within one draw_frame call the steps happen in the order wait,
\* acquire, uniform write, fence reset, command buffer reset, record,
\* submit (with the slot's fence), present, advance; the fence reset follows
\* a successful acquire and the present follows the submit.
C7_StrictStepOrder ==
    /\ IsPrefix(Only(SeqRange(FrameOrder)), FrameOrder)
    /\ Has("reset_fences") => acquire_result \in {"SUCCESS", "SUBOPTIMAL"}
    /\ pc = "queue_present" =>
          \/ in_flight_fences[current_frame]
          \/ \E sub \in graphics_queue :
                sub.fence = current_frame /\ sub.command_buffer = current_frame

C7_Witness ==
    /\ pc = "returned"
    /\ Only(SeqRange(FrameOrder)) = FrameOrder

\* C8: a pending present waits on the render-finished semaphore that the
\* submission of the same frame signals, that submission waits on the
\* image-available semaphore its acquire signaled, and no image is shown
\* before the rendering submitted for it has finished.
C8_PresentAfterRender ==
    /\ ~presented_unrendered
    /\ \A sub \in graphics_queue : image_available_semaphores[sub.wait_semaphore]
    /\ \A k \in 1 .. Len(present_queue) :
          \/ images[present_queue[k].image].rendered
          \/ \E sub \in graphics_queue :
                /\ sub.image = present_queue[k].image
                /\ sub.signal_semaphore = present_queue[k].wait_semaphore

C8_Witness ==
    /\ graphics_queue = {}
    /\ Len(present_queue) = 1
    /\ images[present_queue[1].image].rendered
    /\ render_finished_semaphores[present_queue[1].wait_semaphore]
    /\ current_frame = 1

\* The swapchain value is the product of a finished creation.
SwapchainBuilt == pc # "rc_create_framebuffers" /\ recreate_result # "err"

\* C9: after every successful creation or recreation the swapchain has as
\* many image views as framebuffers as swapchain images.
C9_ViewFramebufferImageCounts ==
    SwapchainBuilt =>
        /\ Len(swapchain.image_views) = Len(swapchain.framebuffers)
        /\ Len(swapchain.framebuffers) = Cardinality(DOMAIN images)

C9_Witness ==
    /\ recreate_result = "ok"
    /\ swapchain.vk_swapchain = 2
    /\ Len(swapchain.framebuffers) = 3
    /\ Cardinality(DOMAIN images) = 3

RecreateSteps ==
    {"device_wait_idle", "get_surface_details", "destroy_framebuffers",
     "destroy_image_views", "destroy_swapchain", "create_swapchain",
     "create_framebuffers"}

\* C10 as stated: recreate_swapchain waits for the device, requeries the
\* surface details, then destroys framebuffers, image views and the chain,
\* then creates the new swapchain and its framebuffers.
C10_RequeryBeforeDestroy ==
    IsPrefix(Only(RecreateSteps),
             <<"device_wait_idle", "get_surface_details", "destroy_framebuffers",
               "destroy_image_views", "destroy_swapchain", "create_swapchain",
               "create_framebuffers">>)

\* C10 as amended: recreate_swapchain waits until the device is idle, then
\* destroys the old framebuffers, image views and chain in that order, then
\* requeries the surface details, then creates the new swapchain and its
\* framebuffers.
C10_DestroyBeforeRequery ==
    /\ IsPrefix(Only(RecreateSteps),
                <<"device_wait_idle", "destroy_framebuffers",
                  "destroy_image_views", "destroy_swapchain",
                  "get_surface_details", "create_swapchain",
                  "create_framebuffers">>)
    /\ pc = "rc_cleanup" => DeviceIdle

C10_Witness ==
    /\ recreate_result = "ok"
    /\ Len(Only(RecreateSteps)) = 7

\* The image view a framebuffer was created for (presentation.rs 178-183).
AttachmentOf(framebuffer) == <<framebuffer[1], framebuffer[3]>>

\* A framebuffer that exists together with the image view and the chain
\* behind it.
LiveFramebuffer(framebuffer) ==
    /\ framebuffer \in device_objects.framebuffers
    /\ AttachmentOf(framebuffer) \in device_objects.image_views
    /\ framebuffer[1] \in device_objects.swapchains

\* C11: when recreate_swapchain starts destroying the old framebuffers, image
\* views and chain, no submission or present is still in flight; and every
\* command buffer about to be submitted, every submission in flight and
\* every queued present refers only to framebuffers, image views and chains
\* that have not been destroyed.
C11_NoUseOfDestroyedSwapchain ==
    /\ pc = "rc_cleanup" => DeviceIdle
    /\ pc = "queue_submit" =>
          LiveFramebuffer(command_buffers[current_frame].framebuffer)
    /\ \A sub \in graphics_queue : LiveFramebuffer(sub.framebuffer)
    /\ \A k \in 1 .. Len(present_queue) :
          present_queue[k].swapchain \in device_objects.swapchains
    /\ pc \in {"record_command_buffer", "queue_submit", "queue_present"} =>
          swapchain.vk_swapchain \in device_objects.swapchains

C11_Witness ==
    /\ swapchain.vk_swapchain = 2
    /\ graphics_queue # {}
    /\ present_queue # << >>
    /\ \E s \in Slots : command_buffers[s] # Unrecorded /\ command_buffers[s].framebuffer[1] = 1

\* C12 as stated: of two recreate_swapchain calls in a row with no draw in
\* between and the same surface details, the second builds a swapchain of
\* the same extent and format as the first; after every call the live
\* framebuffers, image views and chains are exactly those of the current
\* swapchain and no handle was destroyed twice (up to the drop of the
\* application, which is not a recreate_swapchain call).
C12_RecreateTwiceSameDetails ==
    /\ pc # "dropped" => double_destroyed = {}
    /\ (pc # "dropped" /\ recreate_result = "ok") =>
          device_objects = ObjectsOf(swapchain)
    /\ (Len(builds) = 2 /\ builds[1].details = builds[2].details) =>
          /\ builds[1].settings.extent = builds[2].settings.extent
          /\ builds[1].settings.format = builds[2].settings.format

\* C12 as amended: the same, for two calls that also read the same
\* WINDOW_WIDTH and WINDOW_HEIGHT.
C12_RecreateTwiceSameInputs ==
    /\ pc # "dropped" => double_destroyed = {}
    /\ (pc # "dropped" /\ recreate_result = "ok") =>
          device_objects = ObjectsOf(swapchain)
    /\ (/\ Len(builds) = 2
        /\ builds[1].details = builds[2].details
        /\ builds[1].width = builds[2].width
        /\ builds[1].height = builds[2].height) =>
          /\ builds[1].settings.extent = builds[2].settings.extent
          /\ builds[1].settings.format = builds[2].settings.format

C12_Witness ==
    /\ Len(builds) = 2
    /\ builds[1].details = builds[2].details
    /\ builds[1].details.current_extent = UndefinedExtent
    /\ builds[1].width = builds[2].width
    /\ builds[1].height = builds[2].height
    /\ recreate_result = "ok"
    /\ swapchain.vk_swapchain = 3
    /\ Cardinality(device_objects.swapchains) = 1

\* C13: a resize notification (a step that stores a new client size) invokes
\* recreate_swapchain: the step leaves the host inside the recreation, which
\* is logged as a call.
C13_ResizeInvokesRecreate ==
    [][(WINDOW_WIDTH' # WINDOW_WIDTH \/ WINDOW_HEIGHT' # WINDOW_HEIGHT) =>
          /\ pc' = "rc_device_wait_idle"
          /\ callLog' = Append(callLog, "recreate_swapchain")]_vars

\* C14: an error raised by a step of draw_frame is returned to the loop; the
\* loop passes it to handle(), which displays it, makes no further
\* draw_frame call and wWinMain returns a nonzero code; leaving the loop
\* without an error returns 0 and displays nothing.
C14_FatalErrorsEndTheLoop ==
    /\ (\/ acquire_result = "ERROR"
        \/ present_result = "ERROR"
        \/ recreate_result = "err") => result = "err"
    /\ result = "err" => pc \in {"returned", "exited", "dropped"}
    /\ pc \in {"exited", "dropped"} =>
          IF result = "err"
          THEN exit_code = -1 /\ exit_code # 0 /\ error_handled = "err"
          ELSE exit_code = 0 /\ error_handled = None
    /\ pc \notin {"exited", "dropped"} =>
          (exit_code = None /\ error_handled = None)

C14_Witness ==
    /\ pc = "exited"
    /\ present_result = "ERROR"
    /\ error_handled = "err"
    /\ exit_code = -1
    /\ graphics_queue # {}

\* ------------------------------------------------------ claims on VkApp::new
\* The required names that are not available, in required order.
Missing(required, available) ==
    SelectSeq(required, LAMBDA v : v \notin available)

\* C15: Extensions::are_in succeeds iff every required name is available;
\* otherwise it fails with an InstanceError whose message holds every
\* missing required name, in required order, joined by ", ".
C15_MissingNamesInstanceError ==
    Returned("are_in") =>
        LET missing == Missing(probe.input.required, probe.input.available)
            out == probe.output
        IN  /\ out.ok <=> missing = << >>
            /\ ~out.ok =>
                  /\ out.error.kind = "InstanceError"
                  /\ SelectSeq(out.error.message,
                               LAMBDA piece : piece \in SeqRange(probe.input.required))
                        = missing
                  /\ Len(out.error.message) = 2 * Len(missing)
                  /\ \A k \in 1 .. (Len(missing) - 1) :
                        out.error.message[2 * k + 1] = ", "

\* A device passes when it has the swapchain extension, a graphics family,
\* a family that can present to the surface, a surface format and a present
\* mode.
Passes(device) ==
    /\ device.extension_properties.ok
    /\ SeqRange(DEVICE_EXTENSIONS) \subseteq device.extension_properties.names
    /\ \E k \in 1 .. Len(device.queue_families) : device.queue_families[k].graphics
    /\ \E k \in 1 .. Len(device.queue_families) :
          device.queue_families[k].surface_support = "TRUE"
    /\ device.surface.failing_query = None
    /\ Len(device.surface.details.formats) > 0
    /\ Len(device.surface.details.present_modes) > 0

\* C16: device selection returns the first device of the list that passes
\* all checks, and fails with "No supported devices" when none passes.
C16_FirstCapableDevice ==
    Returned("get_physical_devices") =>
        LET passing == { i \in 1 .. Len(probe.input) : Passes(probe.input[i]) }
            out == probe.output
        IN  IF passing = {}
            THEN ~out.ok /\ out.error.message = "No supported devices"
            ELSE /\ out.ok
                 /\ out.physical_device.vk_physical_device \in passing
                 /\ \A i \in passing : out.physical_device.vk_physical_device <= i

\* C17: create_device gets exactly one queue create info per distinct index
\* among the graphics and the present family: one when they coincide, and
\* then both queues are the same queue, two when they differ.
C17_OneQueuePerDistinctFamily ==
    Returned("create_logical_device") =>
        LET g == probe.input.graphics_family_index
            p == probe.input.present_family_index
            infos == probe.output.queue_create_infos
        IN  /\ Len(infos) = IF g = p THEN 1 ELSE 2
            /\ { infos[k].queue_family_index : k \in 1 .. Len(infos) } = {g, p}
            /\ (g = p) <=> (probe.output.graphics_queue = probe.output.present_queue)

C17_Witness ==
    /\ Returned("create_logical_device")
    /\ probe.input.graphics_family_index = probe.input.present_family_index
    /\ Len(probe.output.queue_create_infos) = 1
    /\ probe.output.graphics_queue = probe.output.present_queue

\* v limited to lo .. hi.
Within(v, lo, hi, e) ==
    /\ lo <= e /\ e <= hi
    /\ (lo <= v /\ v <= hi) => e = v
    /\ v < lo => e = lo
    /\ v > hi => e = hi

\* C18: when the surface reports the undefined extent (u32::MAX), the
\* swapchain extent is the window's client width and height, each limited
\* to min_image_extent .. max_image_extent; otherwise it is the reported
\* current extent.
C18_ExtentSelection ==
    (Returned("get_swapchain_settings") /\ probe.output.ok) =>
        LET details == probe.input.details
            extent == probe.output.extent
        IN  IF details.current_extent = UndefinedExtent
            THEN /\ Within(probe.input.width, details.min_image_extent.width,
                           details.max_image_extent.width, extent.width)
                 /\ Within(probe.input.height, details.min_image_extent.height,
                           details.max_image_extent.height, extent.height)
            ELSE extent = details.current_extent

C18_Witness ==
    /\ Returned("get_swapchain_settings")
    /\ probe.input.details.current_extent = UndefinedExtent
    /\ probe.input.width = 800
    /\ probe.output.extent = Extent2D(720, 540)

\* C19: the chosen format is B8G8R8A8_SRGB with SRGB_NONLINEAR whenever the
\* list holds that pair at any position, and the first format otherwise.
C19_FormatSelection ==
    (Returned("get_swapchain_settings") /\ probe.output.ok) =>
        LET formats == probe.input.details.formats
        IN  IF \E k \in 1 .. Len(formats) : formats[k] = SRGB_FORMAT
            THEN probe.output.format = SRGB_FORMAT
            ELSE probe.output.format = formats[1]

C19_Witness ==
    /\ Returned("get_swapchain_settings")
    /\ Len(probe.input.details.formats) = 2
    /\ probe.input.details.formats[1] = UNORM_FORMAT
    /\ probe.input.details.formats[2] = SRGB_FORMAT
    /\ probe.output.format = SRGB_FORMAT

\* C20: the chosen present mode is MAILBOX when the list holds it, else FIFO
\* when the list holds it, and otherwise the call fails; no other mode is
\* chosen.
C20_PresentModeSelection ==
    Returned("get_swapchain_settings") =>
        LET modes == SeqRange(probe.input.details.present_modes)
            out == probe.output
        IN  /\ "MAILBOX" \in modes => (out.ok /\ out.present_mode = "MAILBOX")
            /\ ("MAILBOX" \notin modes /\ "FIFO" \in modes) =>
                  (out.ok /\ out.present_mode = "FIFO")
            /\ ("MAILBOX" \notin modes /\ "FIFO" \notin modes) => ~out.ok
            /\ out.ok => out.present_mode \in {"MAILBOX", "FIFO"}

C20_Witness ==
    /\ Returned("get_swapchain_settings")
    /\ probe.input.details.present_modes = <<"FIFO", "MAILBOX">>
    /\ probe.output.ok
    /\ probe.output.present_mode = "MAILBOX"

\* C21: the image count asked for is min_image_count + 1, lowered to
\* max_image_count when that is nonzero and smaller; with max_image_count 0
\* it is exactly min_image_count + 1; it is never below min_image_count when
\* max_image_count >= min_image_count.
C21_ImageCount ==
    Returned("create_swapchain") =>
        LET mn == probe.input.min_image_count
            mx == probe.input.max_image_count
            image_count == probe.output
        IN  /\ mx = 0 => image_count = mn + 1
            /\ (mx # 0 /\ mx < mn + 1) => image_count = mx
            /\ (mx # 0 /\ mx >= mn + 1) => image_count = mn + 1
            /\ mx >= mn => image_count >= mn

C21_Witness ==
    /\ Returned("create_swapchain")
    /\ probe.input.min_image_count = 2
    /\ probe.input.max_image_count = 2
    /\ probe.output = 2

\* Index i is below the type count, bit i of the filter is set and type i
\* has every requested flag.
Suitable(call, i) ==
    /\ i \in 0 .. (Len(call.memory_types) - 1)
    /\ Bit(call.type_filter, i) = 1
    /\ call.properties \subseteq call.memory_types[i + 1]

\* C22: find_memory_type returns the lowest suitable index, and fails with
\* "Failed to find suitable memory type" when there is none (as for a filter
\* without bits); the index is always below the memory type count.
C22_LowestSuitableMemoryType ==
    Returned("find_memory_type") =>
        LET found == { i \in 0 .. MaxListLen : Suitable(probe.input, i) }
            out == probe.output
        IN  IF found = {}
            THEN ~out.ok /\ out.error.message = "Failed to find suitable memory type"
            ELSE /\ out.ok
                 /\ out.index \in found
                 /\ \A i \in found : out.index <= i
                 /\ out.index < Len(probe.input.memory_types)

C22_Witness ==
    /\ Returned("find_memory_type")
    /\ probe.input.memory_types = << {"DEVICE_LOCAL"}, {"HOST_VISIBLE", "HOST_COHERENT", "DEVICE_LOCAL"} >>
    /\ probe.input.properties = {"HOST_VISIBLE", "HOST_COHERENT"}
    /\ probe.input.type_filter = 7
    /\ probe.output.ok
    /\ probe.output.index = 1

\* A filter without bits finds nothing.
C22_WitnessNoBits ==
    /\ Returned("find_memory_type")
    /\ probe.input.type_filter = 0
    /\ Len(probe.input.memory_types) = 2
    /\ ~probe.output.ok

\* ------------------------------------------------------- uploads (C23)
\* Where device_log holds an entry.
Positions(entry) == { i \in 1 .. Len(device_log) : device_log[i] = entry }

Logged(entry) == Positions(entry) # {}

\* Every occurrence of `later` has an occurrence of `earlier` before it.
Follows(earlier, later) ==
    \A j \in Positions(later) : \E i \in Positions(earlier) : i < j

\* What is uploaded through a staging buffer, the copy that fills it and the
\* data it is to hold.
UploadDestinations == Uploads \cup {"texture_image"}

CopyInto(destination) ==
    IF destination = "texture_image"
    THEN CopyBufferToImage(Staging(destination), destination)
    ELSE CopyBuffer(Staging(destination), destination)

Uploaded(destination) ==
    IF destination = "texture_image" THEN "pixels" ELSE Payload(destination)

\* C23: in every upload the staging buffer is allocated before the payload
\* is written to it, the payload is written before the destination is
\* allocated, the destination is allocated before the copy is submitted, the
\* staging buffer is destroyed only after a wait for the idle queue that
\* follows the submission; the staging buffer is alive as long as its copy is
\* in the queue, and once the staging buffer is destroyed the destination
\* holds the payload.
C23_UploadOrder ==
    \A d \in UploadDestinations :
        /\ Follows(<<"create", Memory(Staging(d))>>, <<"write", Staging(d)>>)
        /\ Follows(<<"write", Staging(d)>>, <<"create", d>>)
        /\ Follows(<<"create", Memory(d)>>, <<"submit", CommandName(CopyInto(d))>>)
        /\ \A k \in Positions(<<"destroy", Staging(d)>>) :
              \E i \in Positions(<<"submit", CommandName(CopyInto(d))>>),
                 j \in Positions(<<"wait_idle", "graphics_queue">>) :
                    i < j /\ j < k
        /\ [commands |-> CopyInto(d)] \in graphics_queue => Usable(Staging(d))
        /\ Logged(<<"destroy", Staging(d)>>) =>
              /\ d \in DOMAIN device_memory
              /\ device_memory[d].contents = Uploaded(d)

\* All three uploads have run to their end.
C23_Witness ==
    /\ pc = "loop"
    /\ \A d \in UploadDestinations :
          /\ Logged(<<"destroy", Staging(d)>>)
          /\ device_memory[d].contents = Uploaded(d)

\* --------------------------------------------- single-time commands (C25)
\* How many of the first `k` entries of device_log are `op` entries.
OpsBefore(op, k) == Cardinality({ i \in 1 .. k : device_log[i][1] = op })

\* The entry at position `k` comes right after an `op` entry.
RightAfter(op, k) == k > 1 /\ device_log[k - 1][1] = op

\* C25: a single-time command buffer is begun with ONE_TIME_SUBMIT right
\* after it was allocated, recorded right after that, ended right after the
\* recording, submitted right after it was ended and freed right after the
\* wait for the idle graphics queue, when every submission has been executed;
\* it is allocated only when the one before it has been freed, and the
\* graphics queue never holds more than one submission.
C25_OneShotOrder ==
    /\ \A k \in 1 .. Len(device_log) :
          /\ device_log[k][1] = "allocate" =>
                OpsBefore("free", k) = OpsBefore("allocate", k - 1)
          /\ device_log[k][1] = "begin ONE_TIME_SUBMIT" => RightAfter("allocate", k)
          /\ device_log[k][1] = "record" => RightAfter("begin ONE_TIME_SUBMIT", k)
          /\ device_log[k][1] = "end" => RightAfter("record", k)
          /\ device_log[k][1] = "submit" =>
                /\ RightAfter("end", k)
                /\ OpsBefore("executed", k) = OpsBefore("submit", k - 1)
          /\ device_log[k][1] = "wait_idle" =>
                OpsBefore("executed", k) = OpsBefore("submit", k)
          /\ device_log[k][1] = "free" => RightAfter("wait_idle", k)
    /\ Cardinality(graphics_queue) <= 1
    /\ "single_time_command_buffer" \notin live_handles =>
          OpsBefore("free", Len(device_log)) = OpsBefore("allocate", Len(device_log))

\* The last single-time command buffer of the texture load has been freed.
C25_Witness ==
    /\ pc = "create_texture_image:cleanup_staging"
    /\ OpsBefore("free", Len(device_log)) = 3
    /\ device_log[Len(device_log)] = <<"free", "single_time_command_buffer">>

\* ------------------------------------------------- texture layouts (C26)
\* The two transitions create_texture_image asks for.
AcceptedTransitions ==
    { <<"UNDEFINED", "TRANSFER_DST_OPTIMAL">>,
      <<"TRANSFER_DST_OPTIMAL", "SHADER_READ_ONLY_OPTIMAL">> }

\* C26: transition_image_layout accepts exactly the pairs UNDEFINED to
\* TRANSFER_DST and TRANSFER_DST to SHADER_READ_ONLY and rejects every other
\* pair with an error of the kind UnsupportedTransition; the texture load
\* submits the first transition, then the copy, then the second transition,
\* the copy is in the queue only while the image is in TRANSFER_DST, and
\* when the staging buffer of the texture is destroyed the image is in
\* SHADER_READ_ONLY.
C26_ClosedLayoutMachine ==
    /\ Returned("transition_image_layout") =>
          /\ probe.output.ok <=>
                <<probe.input.old_layout, probe.input.new_layout>>
                    \in AcceptedTransitions
          /\ ~probe.output.ok => probe.output.error.kind = "UnsupportedTransition"
    /\ Follows(<<"executed", "pipeline_barrier:TRANSFER_DST_OPTIMAL">>,
               <<"submit", CommandName(CopyInto("texture_image"))>>)
    /\ Follows(<<"executed", CommandName(CopyInto("texture_image"))>>,
               <<"submit", "pipeline_barrier:SHADER_READ_ONLY_OPTIMAL">>)
    /\ [commands |-> CopyInto("texture_image")] \in graphics_queue =>
          device_memory["texture_image"].layout = "TRANSFER_DST_OPTIMAL"
    /\ Logged(<<"destroy", Staging("texture_image")>>) =>
          device_memory["texture_image"].layout = "SHADER_READ_ONLY_OPTIMAL"

\* ------------------------------------------------ non-RGBA texture (C27)
\* create_texture_image has been called and has left its first step.
LoaderCalled ==
    /\ Logged(<<"create", "command_pool">>)
    /\ pc # "create_texture_image"

\* What create_texture_image and its helpers create on the device.
LoaderHandles ==
    SeqRange(create_buffer(Staging("texture_image")))
    \cup SeqRange(create_image("texture_image"))
    \cup {"single_time_command_buffer"}

\* C27: when the decoded texture is not RGBA, create_texture_image returns
\* the InvalidData error "Must be RGBA image", and at that point no staging
\* buffer, image, memory or command buffer has been created: the creation of
\* the command pool by VkApp::new is the last thing the device has seen.
C27_NonRgbaRejectedBeforeAllocation ==
    (LoaderCalled /\ texture_file.found /\ texture_file.color_type # "Rgba") =>
        /\ pc = "new_failed"
        /\ exit_code = -1
        /\ error_handled = "IoError: InvalidData: Must be RGBA image"
        /\ device_log[Len(device_log)] = <<"create", "command_pool">>
        /\ live_handles \cap LoaderHandles = {}
        /\ device_memory = << >>
        /\ graphics_queue = {}

\* The loader has refused a grayscale texture.
C27_Witness ==
    /\ LoaderCalled
    /\ texture_file = TextureFile(TRUE, "Grayscale")
    /\ pc = "new_failed"

\* ------------------------------------------------ upload round trip (C24)
\* C24: after an upload the destination buffer holds exactly the bytes of
\* the payload: as many bytes as the payload has, and the same byte at every
\* position.
C24_UploadRoundTrip ==
    Returned("upload") =>
        /\ Len(probe.output) = size_of_val(probe.input)
        /\ \A i \in 1 .. Len(probe.output) :
              probe.output[i] =
                 probe.input.data[((i - 1) \div probe.input.elem_size) + 1]
                                 [((i - 1) % probe.input.elem_size) + 1]

\* Two elements of two bytes each have made the round trip.
C24_Witness ==
    /\ Returned("upload")
    /\ probe.input.elem_size = 2
    /\ probe.input.data = << <<0, 255>>, <<255, 0>> >>
    /\ probe.output = <<0, 255, 255, 0>>

\* --------------------------------------------------------- teardown (C28)
\* The object a handle was created from.
Parent(handle) ==
    IF handle = "instance" THEN None
    ELSE IF handle \in {"debug_callback", "surface", "device"} THEN "instance"
    ELSE "device"

\* Where the one `entry` of device_log is.
PositionOf(entry) == CHOOSE i \in Positions(entry) : TRUE

\* What VkApp owns that was created from the device and has a destroy call
\* of its own.
DeviceResources ==
    { h \in ConstructedHandles : Parent(h) = "device" } \ FreedWithPool

\* C28: the instance and the device are alive until Drop has run; when Drop
\* has run, both queues were empty, and after the wait for the idle device
\* the device has seen nothing but destroy calls: first one for each
\* resource created from the device, then the device, the surface, the debug
\* messenger and the instance, which is the reverse of the order these four
\* were created in, so that no handle is destroyed after its parent.
C28_TeardownOrder ==
    /\ pc # "dropped" => {"instance", "device"} \subseteq live_handles
    /\ pc = "dropped" =>
          LET w == PositionOf(<<"wait_idle", "device">>)
              n == Len(device_log)
          IN  /\ DeviceIdle
              /\ live_handles = {}
              /\ \A k \in (w + 1) .. n : device_log[k][1] = "destroy"
              /\ { device_log[k][2] : k \in (w + 1) .. (n - 4) } = DeviceResources
              /\ \A k \in (w + 1) .. (n - 4) : Parent(device_log[k][2]) = "device"
              /\ SubSeq(device_log, n - 3, n) =
                    Destroyed(<<"device", "surface", "debug_callback", "instance">>)
              /\ SubSeq(device_log, 1, 4) =
                    Created(<<"instance", "debug_callback", "surface", "device">>)

\* Drop has run after a draw_frame error ended the loop.
C28_Witness ==
    /\ pc = "dropped"
    /\ exit_code = -1
    /\ device_log[Len(device_log)] = <<"destroy", "instance">>

\* ------------------------------------------------- buffer lifetimes (C29)
\* Every Buffer the program creates.
GPUBuffers ==
    { Staging(d) : d \in UploadDestinations } \cup Uploads
        \cup { uniform_buffers(0), uniform_buffers(1) }

\* The handles of the buffers and of their memories.
BufferHandles == GPUBuffers \cup { Memory(b) : b \in GPUBuffers }

\* How often device_log holds an entry.
Times(entry) == Cardinality(Positions(entry))

\* What a step adds to device_log.
NewEntries == SubSeq(device_log', Len(device_log) + 1, Len(device_log'))

\* A buffer and its memory are both among `handles`.
UsableIn(handles, buffer) == {buffer, Memory(buffer)} \subseteq handles

\* What C29 asks of every step.
BufferStep ==
    /\ \A k \in 1 .. Len(NewEntries) :
          LET h == NewEntries[k][2]
          IN  /\ (NewEntries[k][1] = "destroy" /\ h \in BufferHandles) =>
                    /\ h \in live_handles
                    /\ h \notin live_handles'
                    /\ \A j \in 1 .. (k - 1) : NewEntries[j] # NewEntries[k]
                    /\ \A b \in GPUBuffers :
                          h = Memory(b) =>
                             \/ b \notin live_handles
                             \/ \E j \in 1 .. (k - 1) : NewEntries[j] = <<"destroy", b>>
              /\ (NewEntries[k][1] = "create" /\ h \in BufferHandles) =>
                    h \notin live_handles
              /\ NewEntries[k][1] = "write" => UsableIn(live_handles', h)
    /\ \A sub \in graphics_queue' :
          IF "fence" \in DOMAIN sub
          THEN /\ UsableIn(live_handles', "vertex_buffer")
               /\ UsableIn(live_handles', "index_buffer")
               /\ UsableIn(live_handles', uniform_buffers(0))
               /\ UsableIn(live_handles', uniform_buffers(1))
          ELSE sub.commands.op # "pipeline_barrier" =>
                  /\ UsableIn(live_handles', sub.commands.src)
                  /\ sub.commands.op = "copy_buffer" =>
                        UsableIn(live_handles', sub.commands.dst)
    /\ pc' = "update_uniform_buffer" =>
          UsableIn(live_handles', uniform_buffers(current_frame'))
    /\ pc' = "dropped" => live_handles' \cap BufferHandles = {}

\* C29: a buffer or a buffer memory is destroyed only while it is alive and
\* only once, a memory is freed only when its buffer has been destroyed, the
\* host writes only to live buffers, a queued copy or draw finds the buffers
\* it reads and writes alive, and when Drop has run no buffer and no memory
\* is left.
C29_BuffersReleasedOnce == [][BufferStep]_vars

\* A run that drew a frame and left the loop with 0 has released everything.
C29_Witness ==
    /\ pc = "dropped"
    /\ exit_code = 0
    /\ current_frame = 1
    /\ \A b \in GPUBuffers : Times(<<"destroy", Memory(b)>>) = 1

\* ------------------------------------------------------ format change (C30)
\* draw_frame is about to record or submit commands that use the render pass
\* with the framebuffers of the swapchain.
Drawing == pc \in {"record_command_buffer", "queue_submit"}

\* C30: wherever a frame is drawn, the format of the swapchain is the format
\* the render pass of the pipeline was built with.
C30_FormatMatchesRenderPass ==
    Drawing => swapchain.settings.format.format = pipeline.render_pass_format

\* ------------------------------------------------- claims on frames in flight
\* The submissions of draw_frame that the GPU has not completed.
FramesInFlight == { sub \in graphics_queue : "fence" \in DOMAIN sub }

\* The uncompleted submissions of one slot's command buffer.
InFlightOf(slot) == { sub \in FramesInFlight : sub.command_buffer = slot }

\* C31: at every point at most MAX_FRAMES_IN_FLIGHT frames are submitted and
\* not completed, at most one of them per slot, and a slot that is about to
\* submit has none.
C31_AtMostTwoFramesInFlight ==
    /\ Cardinality(FramesInFlight) <= MAX_FRAMES_IN_FLIGHT
    /\ \A slot \in Slots : Cardinality(InFlightOf(slot)) <= 1
    /\ pc = "queue_submit" => InFlightOf(current_frame) = {}

C31_Witness ==
    /\ Cardinality(FramesInFlight) = MAX_FRAMES_IN_FLIGHT
    /\ \A slot \in Slots : Cardinality(InFlightOf(slot)) = 1
    /\ pc = "wait_for_fences"
    /\ ~in_flight_fences[current_frame]

\* ------------------------------------------------ claims on recorded commands
\* C32: the viewport recorded for a frame starts at (0, 0), has the width
\* and height of the swapchain extent and the depth range 0 .. 1, and the
\* scissor covers the whole swapchain extent.
C32_FullViewportStandardDepth ==
    pc = "queue_submit" =>
        LET commands == command_buffers[current_frame]
            extent == swapchain.settings.extent
        IN  /\ commands.viewport =
                  [x |-> 0, y |-> 0,
                   width |-> extent.width, height |-> extent.height,
                   min_depth |-> 0, max_depth |-> 1]
            /\ commands.scissor =
                  [offset |-> [x |-> 0, y |-> 0], extent |-> extent]

\* ------------------------------------------- claims on a failed recreation
\* C33: after a recreate_swapchain that failed, the swapchain the application
\* holds has no destroyed handle; no framebuffer, image view or chain is ever
\* destroyed twice, and after the drop of the application none is left alive.
C33_SwapchainObjectsDestroyedOnce ==
    /\ double_destroyed = {}
    /\ (pc \in {"returned", "exited"} /\ recreate_result = "err") =>
          AllObjects(ObjectsOf(swapchain)) \subseteq AllObjects(device_objects)
    /\ pc = "dropped" => AllObjects(device_objects) = {}

\* -------------------------------------------------- claims on semaphore reuse
\* The step in which the graphics queue completes `sub` and signals its
\* render-finished semaphore.
Completes(sub) == graphics_queue' = graphics_queue \ {sub}

\* The queued presents that wait on a semaphore without being the present
\* of the image `sub` rendered: they were queued by an earlier frame.
EarlierPresents(sub) ==
    { k \in 1 .. Len(present_queue) :
        /\ present_queue[k].wait_semaphore = sub.signal_semaphore
        /\ present_queue[k].image # sub.image }

\* A submission signals its render-finished semaphore only when the
\* semaphore is unsignaled and no earlier present still waits on it.
RenderFinishedStep ==
    \A sub \in FramesInFlight :
        Completes(sub) =>
            /\ ~render_finished_semaphores[sub.signal_semaphore]
            /\ EarlierPresents(sub) = {}

\* A successful acquire signals the slot's image-available semaphore only
\* when that semaphore is unsignaled.
ImageAvailableStep ==
    (pc = "acquire_next_image" /\ pc' = "update_uniform_buffer") =>
        ~image_available_semaphores[current_frame]

\* C34: no submission signals a slot's render-finished semaphore while an
\* earlier present that waits on it has not consumed it, and no acquire
\* signals a slot's image-available semaphore that still holds a signal.
C34_NoSemaphoreReuseHazard ==
    [][RenderFinishedStep /\ ImageAvailableStep]_vars

\* ------------------------------------------------ claims on the image index
\* C35: the image index record_command_buffer selects a framebuffer with is
\* below the number of framebuffers of the current swapchain, and the
\* recorded framebuffer is the one of that index.
C35_ImageIndexInRange ==
    /\ pc = "record_command_buffer" =>
          image_index \in 0 .. (Len(swapchain.framebuffers) - 1)
    /\ pc = "queue_submit" =>
          command_buffers[current_frame].framebuffer =
              swapchain.framebuffers[image_index + 1]
    /\ \A slot \in Slots : command_buffers[slot].framebuffer # "out_of_bounds"

\* The first recording after a recreation that went from 3 images to 2: the
\* other slot still holds the commands for the old framebuffer of index 2.
C35_Witness ==
    /\ pc = "queue_submit"
    /\ swapchain.vk_swapchain = 2
    /\ Len(swapchain.framebuffers) = 2
    /\ image_index = 1
    /\ \E slot \in Slots :
          /\ command_buffers[slot] # Unrecorded
          /\ command_buffers[slot].framebuffer = <<1, "fb", 3>>

\* --------------------------------------------- claims on failed uploads
\* Everything create_vertex_buffer or create_index_buffer creates on the way.
UploadHandles(buffer) ==
    SeqRange(create_buffer(Staging(buffer)))
        \cup SeqRange(create_buffer(buffer))
        \cup {"single_time_command_buffer"}

\* The host is inside the upload of `buffer`, the copy_buffer it calls
\* included.
InUpload(buffer) ==
    \/ pc \in { At(buffer, step) :
                  step \in {"create_staging", "buffer_memcpy", "create_buffer",
                            "copy_buffer", "cleanup_staging"} }
    \/ /\ pc \in {"begin_single_time_commands", "record",
                   "end_single_time_commands", "queue_wait_idle"}
       /\ one_shot.return = At(buffer, "cleanup_staging")

\* C36: when a step of create_vertex_buffer or create_index_buffer (with
\* the create_buffer and copy_buffer calls inside) returns an error, no
\* buffer, memory or single-time command buffer of that upload is alive.
C36_FailedUploadLeavesNothing ==
    [][\A buffer \in Uploads :
          (InUpload(buffer) /\ pc' = "new_failed") =>
              live_handles' \cap UploadHandles(buffer) = {}]_vars

\* --------------------------------------- claims on a rejected transition
\* transition_image_layout has returned its error for an unsupported pair.
Rejected ==
    /\ pc = "new_failed"
    /\ error_handled = "DeviceError: Unsupported layout transition"

\* C37: when transition_image_layout rejects a layout pair, no single-time
\* command buffer is left allocated from the pool and nothing was submitted.
C37_RejectionLeavesPoolUnchanged ==
    Rejected =>
        /\ "single_time_command_buffer" \notin live_handles
        /\ graphics_queue = {}
        /\ \A k \in 1 .. Len(device_log) : device_log[k][1] # "submit"

\* ------------------------------------------------ claims on descriptor sets
\* C38: create_descriptor_sets fails whenever the number of allocated sets
\* or the number of uniform buffers is not MAX_FRAMES_IN_FLIGHT; when it
\* succeeds there are MAX_FRAMES_IN_FLIGHT sets and set i holds uniform
\* buffer i at binding 0 and the texture view and sampler at binding 1.
C38_DescriptorSetsChecked ==
    Returned("create_descriptor_sets") =>
        LET input == probe.input
            output == probe.output
        IN  /\ (\/ input.allocated # MAX_FRAMES_IN_FLIGHT
                \/ Len(input.uniform_buffers) # MAX_FRAMES_IN_FLIGHT) => ~output.ok
            /\ output.ok =>
                  /\ Len(output.descriptor_sets) = MAX_FRAMES_IN_FLIGHT
                  /\ \A i \in 1 .. MAX_FRAMES_IN_FLIGHT :
                        output.descriptor_sets[i] =
                            WrittenSet(input.uniform_buffers[i],
                                       "texture_image_view", "texture_sampler")

\* ------------------------------------------------ claims on the texture size
\* a <= b for two numbers of the same number of bytes, compared from the
\* most significant byte down to byte k.
RECURSIVE LessEq(_, _, _)
LessEq(a, b, k) ==
    IF k = 0 THEN TRUE
    ELSE IF a[k] # b[k] THEN a[k] < b[k]
    ELSE LessEq(a, b, k - 1)

\* C39: for every width and height the size of the staging buffer (and the
\* number of bytes copied) is the exact product width * height * 4, and it
\* is at most the length of the decoded pixels.
C39_ImageSizeExact ==
    Returned("image_size") =>
        LET input == probe.input
            exact == Product(Product(input.width, input.height), U32(4))
            size == Widen(probe.output.image_size, 12)
        IN  /\ ~probe.output.panic
            /\ size = exact
            /\ LessEq(size, output_buffer_size(input.width, input.height,
                                             input.bit_depth), 12)

\* ------------------------------------------- claims on device enumeration
\* A query of the device fails: its extension list, or the surface support
\* of one of its queue families.
QueryFails(device) ==
    \/ ~device.extension_properties.ok
    \/ \E k \in 1 .. Len(device.queue_families) :
          device.queue_families[k].surface_support = "ERROR"

\* C40: a device with a failing query never keeps a later device that
\* passes all checks from being found: the enumeration succeeds and returns
\* a device that passes.
C40_DeviceChecksIndependent ==
    Returned("get_physical_devices") =>
        \A i, j \in 1 .. Len(probe.input) :
            (i < j /\ QueryFails(probe.input[i]) /\ Passes(probe.input[j])) =>
                /\ probe.output.ok
                /\ Passes(probe.input[probe.output.physical_device.vk_physical_device])

====
